---- MODULE Spec2Model ----
(***************************************************************************)
(* Quota and admission control of the spraply backend                      *)
(* (backend/app/api/v1/core.py, backend/app/api/v1/plan.py).               *)
(*                                                                         *)
(* The persisted tables are the state; every HTTP handler is one atomic    *)
(* action (one request, one commit), except under the specifications of    *)
(* concurrent requests, where a handler reads in one step and commits in   *)
(* a later one.  The job execution backend is not part of the repository:  *)
(* its status transitions are an environment action (execution_backend)    *)
(* taken from section 4.4 of the specification.                            *)
(***************************************************************************)
EXTENDS Integers, Sequences, FiniteSets, TLC

VARIABLES
    is_enterprise_mode_active,  \* settings.is_enterprise_mode_active
    now,                        \* datetime.now(UTC), in hours
    plans,                      \* table plans: plan uuid -> row
    subscriptions,              \* table subscriptions, in insertion order
    crawl_requests,             \* table crawl_requests, in insertion order
    search_requests,            \* table search_requests, in insertion order
    sitemap_requests,           \* table sitemap_requests, in insertion order
    proxy_servers,              \* table proxy_servers (a set of rows)
    last,                       \* the request handled last and its response
    inflight                    \* the requests that have read and not yet written

vars == <<is_enterprise_mode_active, now, plans, subscriptions, crawl_requests,
          search_requests, sitemap_requests, proxy_servers, last, inflight>>

tables == <<plans, subscriptions, crawl_requests, search_requests,
            sitemap_requests, proxy_servers>>

jobs == <<crawl_requests, search_requests, sitemap_requests>>

(***************************************************************************)
(* Bounds of the model.                                                    *)
(***************************************************************************)
\* rows of the three job tables together, under Spec
MaxAdmitted == 1
\* rows of the subscriptions table
MaxSubs == 1
\* rows of the three job tables together, under SpecJobs
MaxJobs == 2
\* hours the clock runs, under SpecJobs
MaxTime == 3
\* rows of the subscriptions table, under SpecSubs and SpecStartRace
MaxLedger == 3
\* requests handled at the same time, under SpecStartRace and SpecAdmitRace
MaxSessions == 2
\* rows of the crawl_requests table, under SpecAdmitRace
MaxRaced == 2
\* rows of the three job tables together, under SpecCore
MaxCore == 2
\* rows of the subscriptions table at the start, under SpecLatest
MaxMulti == 2

(***************************************************************************)
(* Constants of the program.                                               *)
(***************************************************************************)
\* timedelta(hours=2) of _validate_concurrency
WINDOW_HOURS == 2

CRAWL_STATUS_NEW == "new"
CRAWL_STATUS_RUNNING == "running"
CRAWL_STATUS_FINISHED == "finished"
CRAWL_STATUS_CANCELING == "canceling"
CRAWL_STATUS_CANCELED == "canceled"
CRAWL_STATUS_FAILED == "failed"

SEARCH_DEPTH_BASIC == "basic"
SEARCH_DEPTH_ADVANCED == "advanced"
SEARCH_DEPTH_ULTIMATE == "ultimate"

PROXY_CATEGORY_GENERAL == "general"
PROXY_CATEGORY_PREMIUM == "premium"
PROXY_CATEGORY_TEAM == "team"

\* Python's None
None == "None"

Teams == {"t1", "t2"}

(***************************************************************************)
(* Rows persisted before the first request: the plan catalog and the       *)
(* proxies.  Global proxies (team_id None) are only ever inserted by an    *)
(* administrator; "mine" is a proxy team t1 created for itself.            *)
(***************************************************************************)
Plan(page_credit, daily_page_credit, crawl_max_depth, max_concurrent_crawl, is_default, is_active) ==
    [page_credit |-> page_credit, daily_page_credit |-> daily_page_credit,
     crawl_max_depth |-> crawl_max_depth, max_concurrent_crawl |-> max_concurrent_crawl,
     is_default |-> is_default, is_active |-> is_active]

PlanCatalog ==
    [p \in {"free", "pro", "flat", "unlimited", "retired"} |->
        CASE p = "free"      -> Plan(5, 5, 3, 1, TRUE, TRUE)
          [] p = "pro"       -> Plan(100, 2, 10, 1, FALSE, TRUE)
          [] p = "flat"      -> Plan(100, -1, 10, 2, FALSE, TRUE)
          [] p = "unlimited" -> Plan(-1, -1, -1, -1, FALSE, TRUE)
          [] p = "retired"   -> Plan(5, 5, 3, 1, FALSE, FALSE)]

ProxyServer(slug, category, team_id) ==
    [slug |-> slug, category |-> category, team_id |-> team_id]

SeededProxies ==
    { ProxyServer("gen", PROXY_CATEGORY_GENERAL, None),
      ProxyServer("prem", PROXY_CATEGORY_PREMIUM, None),
      ProxyServer("mine", PROXY_CATEGORY_TEAM, "t1") }

(***************************************************************************)
(* Responses.                                                              *)
(***************************************************************************)
HTTPException(status_code, detail) ==
    [raised |-> TRUE, status_code |-> status_code, detail |-> detail]

NoException == [raised |-> FALSE]

Response(op, team, req, status_code, detail, item) ==
    [op |-> op, team |-> team, req |-> req, status_code |-> status_code,
     detail |-> detail, item |-> item]

Rejected(op, team, req, exc) ==
    Response(op, team, req, exc.status_code, exc.detail, None)

(***************************************************************************)
(* Entitlement resolver.                                                   *)
(***************************************************************************)
\* ActiveSubscriptions without the filter on the status
ActiveSubscriptions_anystatus(team) ==
    { i \in DOMAIN subscriptions : subscriptions[i].team_id = team }

\* the rows of the team with status active
ActiveSubscriptions(team) ==
    { i \in DOMAIN subscriptions :
        /\ subscriptions[i].team_id = team
        /\ subscriptions[i].status = "active" }

\* LatestActive with the order ascending: the oldest active row
LatestActive_oldest(team) ==
    LET act == ActiveSubscriptions(team)
    IN  IF act = {} THEN 0
        ELSE CHOOSE i \in act :
                \A j \in act : subscriptions[j].created_at >= subscriptions[i].created_at

\* select ... order_by(created_at.desc()), first row: the index of the row, 0 for None
LatestActive(team) ==
    LET act == ActiveSubscriptions(team)
    IN  IF act = {} THEN 0
        ELSE CHOOSE i \in act :
                \A j \in act : subscriptions[j].created_at <= subscriptions[i].created_at

_get_team_subscription(team) ==
    IF ~is_enterprise_mode_active THEN 0 ELSE LatestActive(team)

_get_active_subscription(team) == LatestActive(team)

\* _remaining_limits without the short-circuit of the unmetered mode
_remaining_limits_persisted(team) ==
    LET s == LatestActive(team)
    IN  IF s = 0
        THEN HTTPException(403, "You have no active subscription")
        ELSE LET subscription == subscriptions[s]
                 plan == plans[subscription.plan_id]
             IN  [raised |-> FALSE,
                  remain |-> subscription.remain_page_credit,
                  remain_daily |-> subscription.remain_daily_page_credit,
                  max_depth |-> plan.crawl_max_depth,
                  max_concurrent |-> plan.max_concurrent_crawl,
                  is_default |-> plan.is_default,
                  allowed_proxy_categories |->
                      {PROXY_CATEGORY_TEAM, PROXY_CATEGORY_GENERAL} \cup
                      (IF ~plan.is_default THEN {PROXY_CATEGORY_PREMIUM} ELSE {})]

\* _remaining_limits allowing the premium category under every plan
_remaining_limits_premium(team) ==
    IF ~is_enterprise_mode_active
    THEN [raised |-> FALSE,
          remain |-> -1, remain_daily |-> -1, max_depth |-> -1, max_concurrent |-> -1,
          is_default |-> FALSE,
          allowed_proxy_categories |->
              {PROXY_CATEGORY_TEAM, PROXY_CATEGORY_GENERAL, PROXY_CATEGORY_PREMIUM}]
    ELSE LET s == _get_team_subscription(team)
         IN  IF s = 0
             THEN HTTPException(403, "You have no active subscription")
             ELSE LET subscription == subscriptions[s]
                      plan == plans[subscription.plan_id]
                  IN  [raised |-> FALSE,
                       remain |-> subscription.remain_page_credit,
                       remain_daily |-> subscription.remain_daily_page_credit,
                       max_depth |-> plan.crawl_max_depth,
                       max_concurrent |-> plan.max_concurrent_crawl,
                       is_default |-> plan.is_default,
                       allowed_proxy_categories |->
                           {PROXY_CATEGORY_TEAM, PROXY_CATEGORY_GENERAL,
                            PROXY_CATEGORY_PREMIUM}]

_remaining_limits(team) ==
    IF ~is_enterprise_mode_active
    THEN [raised |-> FALSE,
          remain |-> -1, remain_daily |-> -1, max_depth |-> -1, max_concurrent |-> -1,
          is_default |-> FALSE,
          allowed_proxy_categories |->
              {PROXY_CATEGORY_TEAM, PROXY_CATEGORY_GENERAL, PROXY_CATEGORY_PREMIUM}]
    ELSE LET s == _get_team_subscription(team)
         IN  IF s = 0
             THEN HTTPException(403, "You have no active subscription")
             ELSE LET subscription == subscriptions[s]
                      plan == plans[subscription.plan_id]
                  IN  [raised |-> FALSE,
                       remain |-> subscription.remain_page_credit,
                       remain_daily |-> subscription.remain_daily_page_credit,
                       max_depth |-> plan.crawl_max_depth,
                       max_concurrent |-> plan.max_concurrent_crawl,
                       is_default |-> plan.is_default,
                       allowed_proxy_categories |->
                           {PROXY_CATEGORY_TEAM, PROXY_CATEGORY_GENERAL} \cup
                           (IF ~plan.is_default THEN {PROXY_CATEGORY_PREMIUM} ELSE {})]

\* running without the two-hour window
running_nowindow(team, model_cls) ==
    { i \in DOMAIN model_cls :
        /\ model_cls[i].team_id = team
        /\ model_cls[i].status \in {CRAWL_STATUS_NEW, CRAWL_STATUS_RUNNING} }

\* running counting the rows of every status
running_anystatus(team, model_cls) ==
    { i \in DOMAIN model_cls :
        /\ model_cls[i].team_id = team
        /\ model_cls[i].created_at >= now - WINDOW_HOURS }

\* the rows the concurrency check counts
running(team, model_cls) ==
    { i \in DOMAIN model_cls :
        /\ model_cls[i].team_id = team
        /\ model_cls[i].status \in {CRAWL_STATUS_NEW, CRAWL_STATUS_RUNNING}
        /\ model_cls[i].created_at >= now - WINDOW_HOURS }

\* _validate_concurrency without the skip of the limit -1
_validate_concurrency_noskip(team, model_cls) ==
    LET limits == _remaining_limits(team)
    IN  IF limits.raised THEN limits
        ELSE IF Cardinality(running(team, model_cls)) >= limits.max_concurrent
        THEN HTTPException(403, "Your plan does not support more than "
                                \o ToString(limits.max_concurrent) \o " concurrent tasks")
        ELSE NoException

_validate_concurrency(team, model_cls) ==
    LET limits == _remaining_limits(team)
    IN  IF limits.raised THEN limits
        ELSE IF limits.max_concurrent = -1 THEN NoException
        ELSE IF Cardinality(running(team, model_cls)) >= limits.max_concurrent
        THEN HTTPException(403, "Your plan does not support more than "
                                \o ToString(limits.max_concurrent) \o " concurrent tasks")
        ELSE NoException

\* _search_credit_cost with the multiplier of ultimate for advanced too
_search_credit_cost_steep(result_limit, depth) ==
    LET depth_multiplier ==
            CASE depth = SEARCH_DEPTH_BASIC -> 1
              [] depth = SEARCH_DEPTH_ADVANCED -> 3
              [] depth = SEARCH_DEPTH_ULTIMATE -> 3
              [] OTHER -> 1
    IN  result_limit * depth_multiplier

_search_credit_cost(result_limit, depth) ==
    LET depth_multiplier ==
            CASE depth = SEARCH_DEPTH_BASIC -> 1
              [] depth = SEARCH_DEPTH_ADVANCED -> 2
              [] depth = SEARCH_DEPTH_ULTIMATE -> 3
              [] OTHER -> 1
    IN  result_limit * depth_multiplier

_sitemap_credit_cost(ignore_sitemap_xml) ==
    IF ignore_sitemap_xml THEN 10 ELSE 1

(***************************************************************************)
(* Proxy access guard.  db.scalar returns the first row of an unordered    *)
(* select, or None: ProxyLookup is the set of results it can return, each  *)
(* a set of at most one row.                                               *)
(***************************************************************************)
\* ProxyLookup over the proxies of every team
ProxyLookup_anyteam(team, slug) ==
    LET rows == { p \in proxy_servers : p.slug = slug }
    IN  IF rows = {} THEN {{}} ELSE {{p} : p \in rows}

ProxyLookup(team, slug) ==
    LET rows == { p \in proxy_servers :
                    /\ p.slug = slug
                    /\ (p.team_id = team \/ p.team_id = None) }
    IN  IF rows = {} THEN {{}} ELSE {{p} : p \in rows}

\* "not slug": None and the empty string
Falsy(slug) == slug = None \/ slug = ""

_validate_proxy_access(team, slug, allowed_categories, proxy) ==
    IF Falsy(slug) THEN NoException
    ELSE IF proxy = {}
    THEN HTTPException(400, "Proxy server does not exist")
    ELSE IF \E p \in proxy : p.category \notin allowed_categories
    THEN HTTPException(403, "With the current plan you cannot use this proxy server")
    ELSE NoException

(***************************************************************************)
(* Admission.  A payload is the part of the request body the handler       *)
(* reads: the spider options of a crawl (and the urls of a batch), the     *)
(* result limit and depth of a search, the options of a sitemap.           *)
(***************************************************************************)
SpiderOptions(max_depth, page_limit, proxy_server) ==
    [max_depth |-> max_depth, page_limit |-> page_limit, proxy_server |-> proxy_server]

CrawlRequest(uuid, team, urls, crawl_type, options) ==
    [uuid |-> uuid, team_id |-> team, urls |-> urls, crawl_type |-> crawl_type,
     status |-> CRAWL_STATUS_NEW, options |-> options, created_at |-> now]

SearchRequest(uuid, team, search_options, result_limit) ==
    [uuid |-> uuid, team_id |-> team, search_options |-> search_options,
     result_limit |-> result_limit, status |-> CRAWL_STATUS_NEW, created_at |-> now]

SitemapRequest(uuid, team, options) ==
    [uuid |-> uuid, team_id |-> team, options |-> options,
     status |-> CRAWL_STATUS_NEW, created_at |-> now]

\* create_crawl_request_checks with the plan credit compared by >= : a request
\* for exactly the remaining credit is refused
create_crawl_request_checks_ge(team, payload, proxy) ==
    LET limits == _remaining_limits(team)
    IN  IF limits.raised THEN limits
        ELSE
        LET conc == _validate_concurrency(team, crawl_requests)
            page_limit == payload.page_limit
        IN  IF conc.raised THEN conc
            ELSE IF limits.remain # -1 /\ page_limit >= limits.remain
            THEN HTTPException(403, "You just have " \o ToString(limits.remain)
                                    \o " page credits left in your plan")
            ELSE IF limits.remain_daily # -1 /\ page_limit > limits.remain_daily
            THEN HTTPException(403, "You just have " \o ToString(limits.remain_daily)
                                    \o " daily pages left in your plan")
            ELSE IF limits.max_depth # -1 /\ payload.max_depth > limits.max_depth
            THEN HTTPException(403, "Your plan does not support more than "
                                    \o ToString(limits.max_depth) \o " depth")
            ELSE _validate_proxy_access(team, payload.proxy_server,
                                        limits.allowed_proxy_categories, proxy)

\* create_crawl_request_checks without the depth check
create_crawl_request_checks_nodepth(team, payload, proxy) ==
    LET limits == _remaining_limits(team)
    IN  IF limits.raised THEN limits
        ELSE
        LET conc == _validate_concurrency(team, crawl_requests)
            page_limit == payload.page_limit
        IN  IF conc.raised THEN conc
            ELSE IF limits.remain # -1 /\ page_limit > limits.remain
            THEN HTTPException(403, "You just have " \o ToString(limits.remain)
                                    \o " page credits left in your plan")
            ELSE IF limits.remain_daily # -1 /\ page_limit > limits.remain_daily
            THEN HTTPException(403, "You just have " \o ToString(limits.remain_daily)
                                    \o " daily pages left in your plan")
            ELSE _validate_proxy_access(team, payload.proxy_server,
                                        limits.allowed_proxy_categories, proxy)

\* the exception create_crawl_request raises, or NoException
\* create_crawl_request_checks comparing the credits before the concurrency
create_crawl_request_checks_creditfirst(team, payload, proxy) ==
    LET limits == _remaining_limits(team)
    IN  IF limits.raised THEN limits
        ELSE
        LET conc == _validate_concurrency(team, crawl_requests)
            page_limit == payload.page_limit
        IN  IF limits.remain # -1 /\ page_limit > limits.remain
            THEN HTTPException(403, "You just have " \o ToString(limits.remain)
                                    \o " page credits left in your plan")
            ELSE IF limits.remain_daily # -1 /\ page_limit > limits.remain_daily
            THEN HTTPException(403, "You just have " \o ToString(limits.remain_daily)
                                    \o " daily pages left in your plan")
            ELSE IF conc.raised THEN conc
            ELSE IF limits.max_depth # -1 /\ payload.max_depth > limits.max_depth
            THEN HTTPException(403, "Your plan does not support more than "
                                    \o ToString(limits.max_depth) \o " depth")
            ELSE _validate_proxy_access(team, payload.proxy_server,
                                        limits.allowed_proxy_categories, proxy)

create_crawl_request_checks(team, payload, proxy) ==
    LET limits == _remaining_limits(team)
    IN  IF limits.raised THEN limits
        ELSE
        LET conc == _validate_concurrency(team, crawl_requests)
            page_limit == payload.page_limit
        IN  IF conc.raised THEN conc
            ELSE IF limits.remain # -1 /\ page_limit > limits.remain
            THEN HTTPException(403, "You just have " \o ToString(limits.remain)
                                    \o " page credits left in your plan")
            ELSE IF limits.remain_daily # -1 /\ page_limit > limits.remain_daily
            THEN HTTPException(403, "You just have " \o ToString(limits.remain_daily)
                                    \o " daily pages left in your plan")
            ELSE IF limits.max_depth # -1 /\ payload.max_depth > limits.max_depth
            THEN HTTPException(403, "Your plan does not support more than "
                                    \o ToString(limits.max_depth) \o " depth")
            ELSE _validate_proxy_access(team, payload.proxy_server,
                                        limits.allowed_proxy_categories, proxy)

\* create_crawl_request adding the row before the checks, and keeping it
create_crawl_request_addfirst(team, payload) ==
    \E proxy \in ProxyLookup(team, payload.proxy_server) :
        LET exc == create_crawl_request_checks(team, payload, proxy)
            item == CrawlRequest(Len(crawl_requests) + 1, team, <<"url">>, "single", payload)
        IN  /\ crawl_requests' = Append(crawl_requests, item)
            /\ last' = IF exc.raised
                       THEN Rejected("create_crawl_request", team, payload, exc)
                       ELSE Response("create_crawl_request", team, payload, 201, "", item)
            /\ UNCHANGED <<is_enterprise_mode_active, now, plans, subscriptions,
                           search_requests, sitemap_requests, proxy_servers>>

\* create_crawl_request deducting the pages of the admitted crawl from the
\* counters of the team's subscription
create_crawl_request_deduct(team, payload) ==
    \E proxy \in ProxyLookup(team, payload.proxy_server) :
        LET exc == create_crawl_request_checks(team, payload, proxy)
            item == CrawlRequest(Len(crawl_requests) + 1, team, <<"url">>, "single", payload)
            s == _get_team_subscription(team)
        IN  IF exc.raised
            THEN /\ last' = Rejected("create_crawl_request", team, payload, exc)
                 /\ UNCHANGED <<is_enterprise_mode_active, now, tables>>
            ELSE /\ crawl_requests' = Append(crawl_requests, item)
                 /\ subscriptions' =
                        IF s = 0 THEN subscriptions
                        ELSE [subscriptions EXCEPT
                                ![s].remain_page_credit = @ - payload.page_limit,
                                ![s].remain_daily_page_credit = @ - payload.page_limit]
                 /\ last' = Response("create_crawl_request", team, payload, 201, "", item)
                 /\ UNCHANGED <<is_enterprise_mode_active, now, plans,
                                search_requests, sitemap_requests, proxy_servers>>

create_crawl_request(team, payload) ==
    \E proxy \in ProxyLookup(team, payload.proxy_server) :
        LET exc == create_crawl_request_checks(team, payload, proxy)
            item == CrawlRequest(Len(crawl_requests) + 1, team, <<"url">>, "single", payload)
        IN  IF exc.raised
            THEN /\ last' = Rejected("create_crawl_request", team, payload, exc)
                 /\ UNCHANGED <<is_enterprise_mode_active, now, tables>>
            ELSE /\ crawl_requests' = Append(crawl_requests, item)
                 /\ last' = Response("create_crawl_request", team, payload, 201, "", item)
                 /\ UNCHANGED <<is_enterprise_mode_active, now, plans, subscriptions,
                                search_requests, sitemap_requests, proxy_servers>>

\* the exception batch_crawl_requests raises, or NoException
batch_crawl_requests_checks(team, payload, proxy) ==
    LET limits == _remaining_limits(team)
    IN  IF limits.raised THEN limits
        ELSE
        LET conc == _validate_concurrency(team, crawl_requests)
            page_limit == Len(payload.urls)
        IN  IF conc.raised THEN conc
            ELSE IF limits.remain # -1 /\ page_limit > limits.remain
            THEN HTTPException(403, "You just have " \o ToString(limits.remain)
                                    \o " page credits left in your plan")
            ELSE IF limits.remain_daily # -1 /\ page_limit > limits.remain_daily
            THEN HTTPException(403, "You just have " \o ToString(limits.remain_daily)
                                    \o " daily pages left in your plan")
            ELSE _validate_proxy_access(team, payload.spider_options.proxy_server,
                                        limits.allowed_proxy_categories, proxy)

\* batch_crawl_requests persisting the spider options as the client sent them
batch_crawl_requests_assent(team, payload) ==
    \E proxy \in ProxyLookup(team, payload.spider_options.proxy_server) :
        LET exc == batch_crawl_requests_checks(team, payload, proxy)
            item == CrawlRequest(Len(crawl_requests) + 1, team, payload.urls, "batch",
                                 payload.spider_options)
        IN  IF exc.raised
            THEN /\ last' = Rejected("batch_crawl_requests", team, payload, exc)
                 /\ UNCHANGED <<is_enterprise_mode_active, now, tables>>
            ELSE /\ crawl_requests' = Append(crawl_requests, item)
                 /\ last' = Response("batch_crawl_requests", team, payload, 201, "", item)
                 /\ UNCHANGED <<is_enterprise_mode_active, now, plans, subscriptions,
                                search_requests, sitemap_requests, proxy_servers>>

batch_crawl_requests(team, payload) ==
    \E proxy \in ProxyLookup(team, payload.spider_options.proxy_server) :
        LET exc == batch_crawl_requests_checks(team, payload, proxy)
            spider_options == [payload.spider_options EXCEPT
                                  !.max_depth = 0, !.page_limit = Len(payload.urls)]
            item == CrawlRequest(Len(crawl_requests) + 1, team, payload.urls, "batch",
                                 spider_options)
        IN  IF exc.raised
            THEN /\ last' = Rejected("batch_crawl_requests", team, payload, exc)
                 /\ UNCHANGED <<is_enterprise_mode_active, now, tables>>
            ELSE /\ crawl_requests' = Append(crawl_requests, item)
                 /\ last' = Response("batch_crawl_requests", team, payload, 201, "", item)
                 /\ UNCHANGED <<is_enterprise_mode_active, now, plans, subscriptions,
                                search_requests, sitemap_requests, proxy_servers>>

\* create_search_checks with the daily credit checked against the plan credit
create_search_checks_nodaily(team, payload) ==
    LET limits == _remaining_limits(team)
    IN  IF limits.raised THEN limits
        ELSE
        LET conc == _validate_concurrency(team, search_requests)
            cost == _search_credit_cost(payload.result_limit, payload.depth)
        IN  IF conc.raised THEN conc
            ELSE IF limits.remain # -1 /\ cost > limits.remain
            THEN HTTPException(403, "You just have " \o ToString(limits.remain)
                                    \o " credits left in your plan")
            ELSE IF limits.remain_daily # -1 /\ cost > limits.remain
            THEN HTTPException(403, "You just have " \o ToString(limits.remain_daily)
                                    \o " daily credits left in your plan")
            ELSE NoException

\* the exception create_search raises, or NoException
create_search_checks(team, payload) ==
    LET limits == _remaining_limits(team)
    IN  IF limits.raised THEN limits
        ELSE
        LET conc == _validate_concurrency(team, search_requests)
            cost == _search_credit_cost(payload.result_limit, payload.depth)
        IN  IF conc.raised THEN conc
            ELSE IF limits.remain # -1 /\ cost > limits.remain
            THEN HTTPException(403, "You just have " \o ToString(limits.remain)
                                    \o " credits left in your plan")
            ELSE IF limits.remain_daily # -1 /\ cost > limits.remain_daily
            THEN HTTPException(403, "You just have " \o ToString(limits.remain_daily)
                                    \o " daily credits left in your plan")
            ELSE NoException

\* create_search persisting the job as already running
create_search_running(team, payload) ==
    LET exc == create_search_checks(team, payload)
        item == [SearchRequest(Len(search_requests) + 1, team, [depth |-> payload.depth],
                               payload.result_limit)
                    EXCEPT !.status = CRAWL_STATUS_RUNNING]
    IN  IF exc.raised
        THEN /\ last' = Rejected("create_search", team, payload, exc)
             /\ UNCHANGED <<is_enterprise_mode_active, now, tables>>
        ELSE /\ search_requests' = Append(search_requests, item)
             /\ last' = Response("create_search", team, payload, 201, "", item)
             /\ UNCHANGED <<is_enterprise_mode_active, now, plans, subscriptions,
                            crawl_requests, sitemap_requests, proxy_servers>>

create_search(team, payload) ==
    LET exc == create_search_checks(team, payload)
        item == SearchRequest(Len(search_requests) + 1, team, [depth |-> payload.depth],
                              payload.result_limit)
    IN  IF exc.raised
        THEN /\ last' = Rejected("create_search", team, payload, exc)
             /\ UNCHANGED <<is_enterprise_mode_active, now, tables>>
        ELSE /\ search_requests' = Append(search_requests, item)
             /\ last' = Response("create_search", team, payload, 201, "", item)
             /\ UNCHANGED <<is_enterprise_mode_active, now, plans, subscriptions,
                            crawl_requests, sitemap_requests, proxy_servers>>

\* the exception create_sitemap raises, or NoException
\* create_sitemap_checks with the wording of the crawl handlers
create_sitemap_checks_pages(team, payload, proxy) ==
    LET limits == _remaining_limits(team)
    IN  IF limits.raised THEN limits
        ELSE
        LET conc == _validate_concurrency(team, sitemap_requests)
            cost == _sitemap_credit_cost(payload.ignore_sitemap_xml)
        IN  IF conc.raised THEN conc
            ELSE IF limits.remain # -1 /\ cost > limits.remain
            THEN HTTPException(403, "You just have " \o ToString(limits.remain)
                                    \o " page credits left in your plan")
            ELSE IF limits.remain_daily # -1 /\ cost > limits.remain_daily
            THEN HTTPException(403, "You just have " \o ToString(limits.remain_daily)
                                    \o " daily pages left in your plan")
            ELSE _validate_proxy_access(team, payload.proxy_server,
                                        limits.allowed_proxy_categories, proxy)

create_sitemap_checks(team, payload, proxy) ==
    LET limits == _remaining_limits(team)
    IN  IF limits.raised THEN limits
        ELSE
        LET conc == _validate_concurrency(team, sitemap_requests)
            cost == _sitemap_credit_cost(payload.ignore_sitemap_xml)
        IN  IF conc.raised THEN conc
            ELSE IF limits.remain # -1 /\ cost > limits.remain
            THEN HTTPException(403, "You just have " \o ToString(limits.remain)
                                    \o " credits left in your plan")
            ELSE IF limits.remain_daily # -1 /\ cost > limits.remain_daily
            THEN HTTPException(403, "You just have " \o ToString(limits.remain_daily)
                                    \o " daily credits left in your plan")
            ELSE _validate_proxy_access(team, payload.proxy_server,
                                        limits.allowed_proxy_categories, proxy)

create_sitemap(team, payload) ==
    \E proxy \in ProxyLookup(team, payload.proxy_server) :
        LET exc == create_sitemap_checks(team, payload, proxy)
            item == SitemapRequest(Len(sitemap_requests) + 1, team, payload)
        IN  IF exc.raised
            THEN /\ last' = Rejected("create_sitemap", team, payload, exc)
                 /\ UNCHANGED <<is_enterprise_mode_active, now, tables>>
            ELSE /\ sitemap_requests' = Append(sitemap_requests, item)
                 /\ last' = Response("create_sitemap", team, payload, 201, "", item)
                 /\ UNCHANGED <<is_enterprise_mode_active, now, plans, subscriptions,
                                crawl_requests, search_requests, proxy_servers>>

(***************************************************************************)
(* Subscription ledger.  created_at is the server clock at the insert,     *)
(* which differs from one insert to the next: it is kept as the position   *)
(* of the insert.  cancel_at is <<>> for None and <<t>> for a time.        *)
(***************************************************************************)
Subscription(uuid, team, plan_id) ==
    [uuid |-> uuid, team_id |-> team, plan_id |-> plan_id,
     remain_page_credit |-> plans[plan_id].page_credit,
     remain_daily_page_credit |-> plans[plan_id].daily_page_credit,
     status |-> "active", cancel_at |-> <<>>, created_at |-> uuid]

\* start_subscription that cancels the current subscription before it looks
\* the plan up
start_subscription_cancelfirst(team, plan_uuid) ==
    LET current == _get_active_subscription(team)
        canceled == IF current # 0
                    THEN [subscriptions EXCEPT ![current].status = "canceled",
                                               ![current].cancel_at = <<now>>]
                    ELSE subscriptions
    IN  IF ~is_enterprise_mode_active
        THEN /\ last' = Response("start_subscription", team, plan_uuid, 403,
                                 "Subscriptions are disabled in non-enterprise mode", None)
             /\ UNCHANGED <<is_enterprise_mode_active, now, tables>>
        ELSE IF ~(plan_uuid \in DOMAIN plans /\ plans[plan_uuid].is_active)
        THEN /\ subscriptions' = canceled
             /\ last' = Response("start_subscription", team, plan_uuid, 404,
                                 "Plan not found", None)
             /\ UNCHANGED <<is_enterprise_mode_active, now, plans, jobs, proxy_servers>>
        ELSE LET subscription == Subscription(Len(subscriptions) + 1, team, plan_uuid)
             IN  /\ subscriptions' = Append(canceled, subscription)
                 /\ last' = Response("start_subscription", team, plan_uuid, 200, "",
                                     IF plans[plan_uuid].is_default
                                     THEN "started" ELSE "redirect_url")
                 /\ UNCHANGED <<is_enterprise_mode_active, now, plans, jobs, proxy_servers>>

\* start_subscription leaving the current subscription as it is
start_subscription_keep(team, plan_uuid) ==
    IF ~is_enterprise_mode_active
    THEN /\ last' = Response("start_subscription", team, plan_uuid, 403,
                             "Subscriptions are disabled in non-enterprise mode", None)
         /\ UNCHANGED <<is_enterprise_mode_active, now, tables>>
    ELSE IF ~(plan_uuid \in DOMAIN plans /\ plans[plan_uuid].is_active)
    THEN /\ last' = Response("start_subscription", team, plan_uuid, 404,
                             "Plan not found", None)
         /\ UNCHANGED <<is_enterprise_mode_active, now, tables>>
    ELSE LET subscription == Subscription(Len(subscriptions) + 1, team, plan_uuid)
         IN  /\ subscriptions' = Append(subscriptions, subscription)
             /\ last' = Response("start_subscription", team, plan_uuid, 200, "",
                                 IF plans[plan_uuid].is_default
                                 THEN "started" ELSE "redirect_url")
             /\ UNCHANGED <<is_enterprise_mode_active, now, plans, jobs, proxy_servers>>

start_subscription(team, plan_uuid) ==
    IF ~is_enterprise_mode_active
    THEN /\ last' = Response("start_subscription", team, plan_uuid, 403,
                             "Subscriptions are disabled in non-enterprise mode", None)
         /\ UNCHANGED <<is_enterprise_mode_active, now, tables>>
    ELSE IF ~(plan_uuid \in DOMAIN plans /\ plans[plan_uuid].is_active)
    THEN /\ last' = Response("start_subscription", team, plan_uuid, 404,
                             "Plan not found", None)
         /\ UNCHANGED <<is_enterprise_mode_active, now, tables>>
    ELSE LET current == _get_active_subscription(team)
             canceled == IF current # 0
                         THEN [subscriptions EXCEPT ![current].status = "canceled",
                                                    ![current].cancel_at = <<now>>]
                         ELSE subscriptions
             subscription == Subscription(Len(subscriptions) + 1, team, plan_uuid)
         IN  /\ subscriptions' = Append(canceled, subscription)
             /\ last' = Response("start_subscription", team, plan_uuid, 200, "",
                                 IF plans[plan_uuid].is_default
                                 THEN "started" ELSE "redirect_url")
             /\ UNCHANGED <<is_enterprise_mode_active, now, plans, jobs, proxy_servers>>

\* cancel_subscription that also cancels the running jobs of the team
cancel_subscription_cascade(team) ==
    LET sub == _get_active_subscription(team)
        Stop(model_cls) ==
            [i \in DOMAIN model_cls |->
                IF model_cls[i].team_id = team /\ model_cls[i].status = CRAWL_STATUS_RUNNING
                THEN [model_cls[i] EXCEPT !.status = CRAWL_STATUS_CANCELING]
                ELSE model_cls[i]]
    IN  /\ subscriptions' = IF sub # 0
                            THEN [subscriptions EXCEPT ![sub].status = "canceled",
                                                       ![sub].cancel_at = <<now>>]
                            ELSE subscriptions
        /\ crawl_requests' = Stop(crawl_requests)
        /\ search_requests' = Stop(search_requests)
        /\ sitemap_requests' = Stop(sitemap_requests)
        /\ last' = Response("cancel_subscription", team, None, 204, "", None)
        /\ UNCHANGED <<is_enterprise_mode_active, now, plans, proxy_servers>>

\* cancel_subscription deleting the row instead of marking it
cancel_subscription_delete(team) ==
    LET sub == _get_active_subscription(team)
    IN  /\ subscriptions' = IF sub # 0
                            THEN SubSeq(subscriptions, 1, sub - 1)
                                 \o SubSeq(subscriptions, sub + 1, Len(subscriptions))
                            ELSE subscriptions
        /\ last' = Response("cancel_subscription", team, None, 204, "", None)
        /\ UNCHANGED <<is_enterprise_mode_active, now, plans, jobs, proxy_servers>>

cancel_subscription(team) ==
    LET sub == _get_active_subscription(team)
    IN  /\ subscriptions' = IF sub # 0
                            THEN [subscriptions EXCEPT ![sub].status = "canceled",
                                                       ![sub].cancel_at = <<now>>]
                            ELSE subscriptions
        /\ last' = Response("cancel_subscription", team, None, 204, "", None)
        /\ UNCHANGED <<is_enterprise_mode_active, now, plans, jobs, proxy_servers>>

\* renew_subscription on the latest subscription of the team, whatever its status
renew_subscription_anystatus(team) ==
    LET mine == ActiveSubscriptions_anystatus(team)
        sub == IF mine = {} THEN 0
               ELSE CHOOSE i \in mine :
                       \A j \in mine : subscriptions[j].created_at <= subscriptions[i].created_at
    IN  IF sub = 0
        THEN /\ last' = Response("renew_subscription", team, None, 404,
                                 "You have no active subscription", None)
             /\ UNCHANGED <<is_enterprise_mode_active, now, tables>>
        ELSE /\ subscriptions' = [subscriptions EXCEPT ![sub].status = "active",
                                                       ![sub].cancel_at = <<>>]
             /\ last' = Response("renew_subscription", team, None, 204, "", None)
             /\ UNCHANGED <<is_enterprise_mode_active, now, plans, jobs, proxy_servers>>

renew_subscription(team) ==
    LET sub == _get_active_subscription(team)
    IN  IF sub = 0
        THEN /\ last' = Response("renew_subscription", team, None, 404,
                                 "You have no active subscription", None)
             /\ UNCHANGED <<is_enterprise_mode_active, now, tables>>
        ELSE /\ subscriptions' = [subscriptions EXCEPT ![sub].status = "active",
                                                       ![sub].cancel_at = <<>>]
             /\ last' = Response("renew_subscription", team, None, 204, "", None)
             /\ UNCHANGED <<is_enterprise_mode_active, now, plans, jobs, proxy_servers>>

(***************************************************************************)
(* The process is restarted with the other value of the setting            *)
(* IS_ENTERPRISE_MODE_ACTIVE; the database is kept.                        *)
(***************************************************************************)
Settings ==
    /\ is_enterprise_mode_active' = ~is_enterprise_mode_active
    /\ last' = Response("settings", None, None, 0, "", None)
    /\ UNCHANGED <<now, tables>>

(***************************************************************************)
(* Requests sent under Spec.                                               *)
(***************************************************************************)
Urls(n) == [i \in 1..n |-> "url"]

BatchPayload(n, spider_options) == [urls |-> Urls(n), spider_options |-> spider_options]

SearchPayload(result_limit, depth) == [result_limit |-> result_limit, depth |-> depth]

SitemapPayload(ignore_sitemap_xml, proxy_server) ==
    [ignore_sitemap_xml |-> ignore_sitemap_xml, proxy_server |-> proxy_server]

CrawlInputs ==
    { SpiderOptions(3, 5, None), SpiderOptions(3, 6, None), SpiderOptions(4, 2, None),
      SpiderOptions(3, 2, "prem"), SpiderOptions(3, 2, "mine") }

BatchInputs ==
    { BatchPayload(3, SpiderOptions(4, 1, None)), BatchPayload(6, SpiderOptions(1, 1, "prem")) }

SearchInputs ==
    { SearchPayload(5, SEARCH_DEPTH_BASIC), SearchPayload(5, SEARCH_DEPTH_ADVANCED),
      SearchPayload(1, SEARCH_DEPTH_ULTIMATE) }

SitemapInputs ==
    { SitemapPayload(FALSE, None), SitemapPayload(TRUE, None), SitemapPayload(FALSE, "prem") }

PlanInputs == {"free", "pro", "flat", "unlimited", "retired", "ghost"}

\* team t1 sends every request; team t2, the other tenant, never subscribes
\* and asks for a crawl through t1's proxy
CrawlRequestsSent == ({"t1"} \X CrawlInputs) \cup {<<"t2", SpiderOptions(3, 2, "mine")>>}

BatchRequestsSent == {"t1"} \X BatchInputs

SearchRequestsSent == {"t1"} \X SearchInputs

SitemapRequestsSent == {"t1"} \X SitemapInputs

StartRequestsSent == {"t1"} \X PlanInputs

(***************************************************************************)
(* Specification: admission and the subscription ledger, every handler     *)
(* atomic, the clock and the job statuses left alone.                      *)
(***************************************************************************)
TotalJobs == Len(crawl_requests) + Len(search_requests) + Len(sitemap_requests)

Init ==
    /\ is_enterprise_mode_active \in BOOLEAN
    /\ now = 0
    /\ plans = PlanCatalog
    /\ subscriptions = <<>>
    /\ crawl_requests = <<>>
    /\ search_requests = <<>>
    /\ sitemap_requests = <<>>
    /\ proxy_servers = SeededProxies
    /\ last = Response("boot", None, None, 0, "", None)
    /\ inflight = {}

Within == TotalJobs <= MaxAdmitted /\ Len(subscriptions) <= MaxSubs

Next ==
    \/ \E r \in CrawlRequestsSent : create_crawl_request(r[1], r[2]) /\ Within' /\ UNCHANGED inflight
    \/ \E r \in BatchRequestsSent : batch_crawl_requests(r[1], r[2]) /\ Within' /\ UNCHANGED inflight
    \/ \E r \in SearchRequestsSent : create_search(r[1], r[2]) /\ Within' /\ UNCHANGED inflight
    \/ \E r \in SitemapRequestsSent : create_sitemap(r[1], r[2]) /\ Within' /\ UNCHANGED inflight
    \/ \E r \in StartRequestsSent : start_subscription(r[1], r[2]) /\ Within' /\ UNCHANGED inflight
    \/ \E team \in Teams : cancel_subscription(team) /\ UNCHANGED inflight
    \/ \E team \in Teams : renew_subscription(team) /\ UNCHANGED inflight
    \/ Settings /\ UNCHANGED inflight

Spec == Init /\ [][Next]_vars

(***************************************************************************)
(* Job lifecycle: the cancellation handlers, the execution backend and the *)
(* clock.  The uuid of a job is its position in its table.                 *)
(***************************************************************************)
\* db.scalar(select(model_cls).where(uuid == ..., team_id == team.uuid)): 0 for None
\* FindJob without the filter on the team
FindJob_anyteam(model_cls, uuid, team) ==
    IF uuid \in DOMAIN model_cls THEN uuid ELSE 0

FindJob(model_cls, uuid, team) ==
    IF uuid \in DOMAIN model_cls /\ model_cls[uuid].team_id = team THEN uuid ELSE 0

\* delete_crawl_request accepting a job that is new as well
delete_crawl_request_fromnew(team, crawl_request_uuid) ==
    LET item == FindJob(crawl_requests, crawl_request_uuid, team)
    IN  IF item = 0
        THEN /\ last' = Response("delete_crawl_request", team, crawl_request_uuid, 404,
                                 "Crawl request not found", None)
             /\ UNCHANGED <<is_enterprise_mode_active, now, tables>>
        ELSE IF crawl_requests[item].status \notin {CRAWL_STATUS_NEW, CRAWL_STATUS_RUNNING}
        THEN /\ last' = Response("delete_crawl_request", team, crawl_request_uuid, 403,
                                 "Only running crawl requests can be deleted", None)
             /\ UNCHANGED <<is_enterprise_mode_active, now, tables>>
        ELSE /\ crawl_requests' =
                    [crawl_requests EXCEPT ![item].status = CRAWL_STATUS_CANCELING]
             /\ last' = Response("delete_crawl_request", team, crawl_request_uuid, 204, "", None)
             /\ UNCHANGED <<is_enterprise_mode_active, now, plans, subscriptions,
                            search_requests, sitemap_requests, proxy_servers>>

delete_crawl_request(team, crawl_request_uuid) ==
    LET item == FindJob(crawl_requests, crawl_request_uuid, team)
    IN  IF item = 0
        THEN /\ last' = Response("delete_crawl_request", team, crawl_request_uuid, 404,
                                 "Crawl request not found", None)
             /\ UNCHANGED <<is_enterprise_mode_active, now, tables>>
        ELSE IF crawl_requests[item].status # CRAWL_STATUS_RUNNING
        THEN /\ last' = Response("delete_crawl_request", team, crawl_request_uuid, 403,
                                 "Only running crawl requests can be deleted", None)
             /\ UNCHANGED <<is_enterprise_mode_active, now, tables>>
        ELSE /\ crawl_requests' =
                    [crawl_requests EXCEPT ![item].status = CRAWL_STATUS_CANCELING]
             /\ last' = Response("delete_crawl_request", team, crawl_request_uuid, 204, "", None)
             /\ UNCHANGED <<is_enterprise_mode_active, now, plans, subscriptions,
                            search_requests, sitemap_requests, proxy_servers>>

delete_search(team, search_uuid) ==
    LET item == FindJob(search_requests, search_uuid, team)
    IN  IF item = 0
        THEN /\ last' = Response("delete_search", team, search_uuid, 404,
                                 "Search request not found", None)
             /\ UNCHANGED <<is_enterprise_mode_active, now, tables>>
        ELSE IF search_requests[item].status # CRAWL_STATUS_RUNNING
        THEN /\ last' = Response("delete_search", team, search_uuid, 403,
                                 "Only running search requests can be deleted", None)
             /\ UNCHANGED <<is_enterprise_mode_active, now, tables>>
        ELSE /\ search_requests' =
                    [search_requests EXCEPT ![item].status = CRAWL_STATUS_CANCELING]
             /\ last' = Response("delete_search", team, search_uuid, 204, "", None)
             /\ UNCHANGED <<is_enterprise_mode_active, now, plans, subscriptions,
                            crawl_requests, sitemap_requests, proxy_servers>>

delete_sitemap(team, sitemap_uuid) ==
    LET item == FindJob(sitemap_requests, sitemap_uuid, team)
    IN  IF item = 0
        THEN /\ last' = Response("delete_sitemap", team, sitemap_uuid, 404,
                                 "Sitemap request not found", None)
             /\ UNCHANGED <<is_enterprise_mode_active, now, tables>>
        ELSE IF sitemap_requests[item].status # CRAWL_STATUS_RUNNING
        THEN /\ last' = Response("delete_sitemap", team, sitemap_uuid, 403,
                                 "Only running sitemap requests can be deleted", None)
             /\ UNCHANGED <<is_enterprise_mode_active, now, tables>>
        ELSE /\ sitemap_requests' =
                    [sitemap_requests EXCEPT ![item].status = CRAWL_STATUS_CANCELING]
             /\ last' = Response("delete_sitemap", team, sitemap_uuid, 204, "", None)
             /\ UNCHANGED <<is_enterprise_mode_active, now, plans, subscriptions,
                            crawl_requests, search_requests, proxy_servers>>

(***************************************************************************)
(* Listing, retrieval and status of the jobs of a team.  The three kinds   *)
(* of job have the same handlers, each on its own table and with its own   *)
(* message.                                                                *)
(***************************************************************************)
\* the orders select ... order_by(created_at.desc()) can return the rows in
Ordered(model_cls, rows) ==
    { order \in [1..Cardinality(rows) -> rows] :
        /\ \A a, b \in DOMAIN order : a # b => order[a] # order[b]
        /\ \A a, b \in DOMAIN order :
              a < b => model_cls[order[a]].created_at >= model_cls[order[b]].created_at }

list_rows(op, model_cls, team) ==
    \E order \in Ordered(model_cls, { i \in DOMAIN model_cls : model_cls[i].team_id = team }) :
        /\ last' = Response(op, team, None, 200, "",
                            [k \in DOMAIN order |-> model_cls[order[k]]])
        /\ UNCHANGED <<is_enterprise_mode_active, now, tables>>

retrieve_row(op, model_cls, team, uuid, detail) ==
    LET item == FindJob(model_cls, uuid, team)
    IN  /\ last' = IF item = 0
                   THEN Response(op, team, uuid, 404, detail, None)
                   ELSE Response(op, team, uuid, 200, "", model_cls[item])
        /\ UNCHANGED <<is_enterprise_mode_active, now, tables>>

status_of_row(op, model_cls, team, uuid, detail) ==
    LET item == FindJob(model_cls, uuid, team)
    IN  /\ last' = IF item = 0
                   THEN Response(op, team, uuid, 404, detail, None)
                   ELSE Response(op, team, uuid, 200, "", [status |-> model_cls[item].status])
        /\ UNCHANGED <<is_enterprise_mode_active, now, tables>>

list_crawl_requests(team) == list_rows("list_crawl_requests", crawl_requests, team)

retrieve_crawl_request(team, crawl_request_uuid) ==
    retrieve_row("retrieve_crawl_request", crawl_requests, team, crawl_request_uuid,
                 "Crawl request not found")

crawl_status(team, crawl_request_uuid) ==
    status_of_row("crawl_status", crawl_requests, team, crawl_request_uuid,
                  "Crawl request not found")

list_search(team) == list_rows("list_search", search_requests, team)

retrieve_search(team, search_uuid) ==
    retrieve_row("retrieve_search", search_requests, team, search_uuid,
                 "Search request not found")

search_status(team, search_uuid) ==
    status_of_row("search_status", search_requests, team, search_uuid,
                  "Search request not found")

list_sitemaps(team) == list_rows("list_sitemaps", sitemap_requests, team)

retrieve_sitemap(team, sitemap_uuid) ==
    retrieve_row("retrieve_sitemap", sitemap_requests, team, sitemap_uuid,
                 "Sitemap request not found")

sitemap_status(team, sitemap_uuid) ==
    status_of_row("sitemap_status", sitemap_requests, team, sitemap_uuid,
                  "Sitemap request not found")

\* the transitions the execution backend reports (specification, section 4.4)
BackendTransitions ==
    { <<CRAWL_STATUS_NEW, CRAWL_STATUS_RUNNING>>,
      <<CRAWL_STATUS_RUNNING, CRAWL_STATUS_FINISHED>>,
      <<CRAWL_STATUS_NEW, CRAWL_STATUS_FAILED>>,
      <<CRAWL_STATUS_RUNNING, CRAWL_STATUS_FAILED>>,
      <<CRAWL_STATUS_CANCELING, CRAWL_STATUS_CANCELED>> }

\* the rows of a table after the backend reports one transition of one job
Reported(model_cls) ==
    { [model_cls EXCEPT ![x[1]].status = x[2][2]] :
        x \in { y \in (DOMAIN model_cls) \X BackendTransitions :
                    y[2][1] = model_cls[y[1]].status } }

execution_backend ==
    /\ \/ /\ crawl_requests' \in Reported(crawl_requests)
          /\ UNCHANGED <<search_requests, sitemap_requests>>
       \/ /\ search_requests' \in Reported(search_requests)
          /\ UNCHANGED <<crawl_requests, sitemap_requests>>
       \/ /\ sitemap_requests' \in Reported(sitemap_requests)
          /\ UNCHANGED <<crawl_requests, search_requests>>
    /\ last' = Response("execution_backend", None, None, 0, "", None)
    /\ UNCHANGED <<is_enterprise_mode_active, now, plans, subscriptions, proxy_servers>>

\* an hour passes
Tick ==
    /\ now < MaxTime
    /\ now' = now + 1
    /\ last' = Response("tick", None, None, 0, "", None)
    /\ UNCHANGED <<is_enterprise_mode_active, tables>>

(***************************************************************************)
(* Specification of the job lifecycle: metered, team t1 subscribed to the  *)
(* plan "flat" (2 concurrent jobs) and team t2 to the plan "free" (1);     *)
(* every request is within the credit and depth limits, jobs are reported  *)
(* on by the backend and age with the clock.                               *)
(***************************************************************************)
JobsCrawlInputs == { SpiderOptions(1, 1, None) }

JobsBatchInputs == { BatchPayload(1, SpiderOptions(1, 1, None)) }

JobsSearchInputs == { SearchPayload(1, SEARCH_DEPTH_BASIC) }

JobsSitemapInputs == { SitemapPayload(FALSE, None) }

InitJobs ==
    /\ is_enterprise_mode_active = TRUE
    /\ now = 0
    /\ plans = PlanCatalog
    /\ subscriptions = << Subscription(1, "t1", "flat"), Subscription(2, "t2", "free") >>
    /\ crawl_requests = <<>>
    /\ search_requests = <<>>
    /\ sitemap_requests = <<>>
    /\ proxy_servers = SeededProxies
    /\ last = Response("boot", None, None, 0, "", None)
    /\ inflight = {}

WithinJobs == TotalJobs <= MaxJobs

NextJobs ==
    \/ \E team \in Teams, payload \in JobsCrawlInputs :
          create_crawl_request(team, payload) /\ WithinJobs' /\ UNCHANGED inflight
    \/ \E payload \in JobsBatchInputs : batch_crawl_requests("t1", payload) /\ WithinJobs' /\ UNCHANGED inflight
    \/ \E payload \in JobsSearchInputs : create_search("t1", payload) /\ WithinJobs' /\ UNCHANGED inflight
    \/ \E payload \in JobsSitemapInputs : create_sitemap("t1", payload) /\ WithinJobs' /\ UNCHANGED inflight
    \/ \E team \in Teams, uuid \in 1..MaxJobs : delete_crawl_request(team, uuid) /\ UNCHANGED inflight
    \/ \E uuid \in 1..MaxJobs : delete_search("t1", uuid) /\ UNCHANGED inflight
    \/ \E uuid \in 1..MaxJobs : delete_sitemap("t1", uuid) /\ UNCHANGED inflight
    \/ execution_backend /\ UNCHANGED inflight
    \/ Tick /\ UNCHANGED inflight

SpecJobs == InitJobs /\ [][NextJobs]_vars

(***************************************************************************)
(* Specification of the costs: metered, team t1 subscribed to the plan     *)
(* "free" or to the plan "pro", sends searches of every result_limit and   *)
(* depth the request schema accepts and sitemaps with and without          *)
(* ignore_sitemap_xml.  Both plans allow one job at a time, so each table  *)
(* holds one row at most.                                                  *)
(***************************************************************************)
\* SearchRequestIn.result_limit: Field(default=5, ge=1, le=20)
ResultLimits == 1..20

SearchDepths == {SEARCH_DEPTH_BASIC, SEARCH_DEPTH_ADVANCED, SEARCH_DEPTH_ULTIMATE}

InitCost ==
    /\ is_enterprise_mode_active = TRUE
    /\ now = 0
    /\ plans = PlanCatalog
    /\ subscriptions \in { << Subscription(1, "t1", p) >> : p \in {"free", "pro"} }
    /\ crawl_requests = <<>>
    /\ search_requests = <<>>
    /\ sitemap_requests = <<>>
    /\ proxy_servers = SeededProxies
    /\ last = Response("boot", None, None, 0, "", None)
    /\ inflight = {}

NextCost ==
    \/ \E result_limit \in ResultLimits, depth \in SearchDepths :
          create_search("t1", SearchPayload(result_limit, depth)) /\ UNCHANGED inflight
    \/ \E ignore_sitemap_xml \in BOOLEAN :
          create_sitemap("t1", SitemapPayload(ignore_sitemap_xml, None)) /\ UNCHANGED inflight

SpecCost == InitCost /\ [][NextCost]_vars

(***************************************************************************)
(* Specification of the subscription ledger: metered, no subscription at   *)
(* first, the two teams start, cancel and renew subscriptions, one call    *)
(* at a time.                                                              *)
(***************************************************************************)
LedgerPlanInputs == {"free", "pro", "retired"}

InitSubs ==
    /\ is_enterprise_mode_active = TRUE
    /\ now = 0
    /\ plans = PlanCatalog
    /\ subscriptions = <<>>
    /\ crawl_requests = <<>>
    /\ search_requests = <<>>
    /\ sitemap_requests = <<>>
    /\ proxy_servers = SeededProxies
    /\ last = Response("boot", None, None, 0, "", None)
    /\ inflight = {}

WithinLedger == Len(subscriptions) <= MaxLedger

NextSubs ==
    \/ \E team \in Teams, plan_uuid \in LedgerPlanInputs :
          start_subscription(team, plan_uuid) /\ WithinLedger' /\ UNCHANGED inflight
    \/ \E team \in Teams : cancel_subscription(team) /\ UNCHANGED inflight
    \/ \E team \in Teams : renew_subscription(team) /\ UNCHANGED inflight

SpecSubs == InitSubs /\ [][NextSubs]_vars

(***************************************************************************)
(* Specification of the crawl jobs alone: single crawl requests of both    *)
(* teams, their cancellation, the execution backend and the clock.         *)
(***************************************************************************)
NextCrawlJobs ==
    \/ \E team \in Teams, payload \in JobsCrawlInputs :
          create_crawl_request(team, payload) /\ WithinJobs' /\ UNCHANGED inflight
    \/ \E team \in Teams, uuid \in 1..MaxJobs :
          delete_crawl_request(team, uuid) /\ UNCHANGED inflight
    \/ execution_backend /\ UNCHANGED inflight
    \/ Tick /\ UNCHANGED inflight

SpecCrawlJobs == InitJobs /\ [][NextCrawlJobs]_vars

(***************************************************************************)
(* Specification of the job operations of both teams: admission,           *)
(* cancellation, listing, retrieval and status of the three kinds,         *)
(* cancellation of subscriptions, and the execution backend.               *)
(* Single crawls are sent by both teams, searches by t2, sitemaps by t1.   *)
(***************************************************************************)
WithinCore == TotalJobs <= MaxCore

NextCore ==
    \/ \E team \in Teams, payload \in JobsCrawlInputs :
          create_crawl_request(team, payload) /\ WithinCore' /\ UNCHANGED inflight
    \/ \E payload \in JobsSearchInputs :
          create_search("t2", payload) /\ WithinCore' /\ UNCHANGED inflight
    \/ \E payload \in JobsSitemapInputs :
          create_sitemap("t1", payload) /\ WithinCore' /\ UNCHANGED inflight
    \/ \E team \in Teams, uuid \in 1..MaxCore :
          delete_crawl_request(team, uuid) /\ UNCHANGED inflight
    \/ \E team \in Teams, uuid \in 1..MaxCore :
          delete_search(team, uuid) /\ UNCHANGED inflight
    \/ \E team \in Teams, uuid \in 1..MaxCore :
          delete_sitemap(team, uuid) /\ UNCHANGED inflight
    \/ \E team \in Teams : list_crawl_requests(team) /\ UNCHANGED inflight
    \/ \E team \in Teams : list_search(team) /\ UNCHANGED inflight
    \/ \E team \in Teams : list_sitemaps(team) /\ UNCHANGED inflight
    \/ \E team \in Teams, uuid \in 1..MaxCore :
          retrieve_crawl_request(team, uuid) /\ UNCHANGED inflight
    \/ \E team \in Teams, uuid \in 1..MaxCore :
          retrieve_search(team, uuid) /\ UNCHANGED inflight
    \/ \E team \in Teams, uuid \in 1..MaxCore :
          retrieve_sitemap(team, uuid) /\ UNCHANGED inflight
    \/ \E team \in Teams, uuid \in 1..MaxCore :
          crawl_status(team, uuid) /\ UNCHANGED inflight
    \/ \E team \in Teams, uuid \in 1..MaxCore :
          search_status(team, uuid) /\ UNCHANGED inflight
    \/ \E team \in Teams, uuid \in 1..MaxCore :
          sitemap_status(team, uuid) /\ UNCHANGED inflight
    \/ \E team \in Teams : cancel_subscription(team) /\ UNCHANGED inflight
    \/ execution_backend /\ UNCHANGED inflight

SpecCore == InitJobs /\ [][NextCore]_vars

(***************************************************************************)
(* Specification of the resolution among several subscriptions: metered,   *)
(* the ledger holds rows of either status, several of a team active, as    *)
(* concurrent start_subscription calls leave them.  created_at is the      *)
(* server's now() at the insert, the start time of the transaction, so     *)
(* that the rows need not be stored in the order of their created_at; the  *)
(* times of the rows differ.                                               *)
(***************************************************************************)
MultiPlanInputs == {"free", "flat"}

LedgerRow(uuid, team, plan_id, status, created_at) ==
    [Subscription(uuid, team, plan_id) EXCEPT !.status = status, !.created_at = created_at]

Ledgers ==
    { [i \in 1..MaxMulti |-> LedgerRow(i, x[1][i], x[2][i], x[3][i], x[4][i])] :
        x \in { y \in [1..MaxMulti -> Teams] \X [1..MaxMulti -> MultiPlanInputs]
                      \X [1..MaxMulti -> {"active", "canceled"}]
                      \X [1..MaxMulti -> 1..MaxMulti] :
                    \A a, b \in 1..MaxMulti : a # b => y[4][a] # y[4][b] } }

InitLatest ==
    /\ is_enterprise_mode_active = TRUE
    /\ now = 0
    /\ plans = PlanCatalog
    /\ subscriptions \in Ledgers
    /\ crawl_requests = <<>>
    /\ search_requests = <<>>
    /\ sitemap_requests = <<>>
    /\ proxy_servers = SeededProxies
    /\ last = Response("boot", None, None, 0, "", None)
    /\ inflight = {}

\* requests over a limit of either plan: the rejection cites the plan applied
LatestCrawlInputs == { SpiderOptions(11, 1, None), SpiderOptions(11, 6, None) }

WithinLatest == Len(subscriptions) <= MaxMulti + 1

NextLatest ==
    \/ \E team \in Teams, payload \in LatestCrawlInputs :
          create_crawl_request(team, payload) /\ UNCHANGED inflight
    \/ \E team \in Teams, plan_uuid \in MultiPlanInputs :
          start_subscription(team, plan_uuid) /\ WithinLatest' /\ UNCHANGED inflight
    \/ \E team \in Teams : cancel_subscription(team) /\ UNCHANGED inflight
    \/ \E team \in Teams : renew_subscription(team) /\ UNCHANGED inflight

SpecLatest == InitLatest /\ [][NextLatest]_vars

(***************************************************************************)
(* Concurrent requests.  Each request runs in its own database session: a  *)
(* handler first reads (and raises if a check fails), and writes at its    *)
(* db.commit(); other requests can run in between.  A request that has     *)
(* read and not yet committed is in inflight, with what it has read.       *)
(***************************************************************************)
Sessions == 1..MaxSessions

InFlight(session, op, team, req, current) ==
    [session |-> session, op |-> op, team |-> team, req |-> req, current |-> current]

Idle(session) == \A r \in inflight : r.session # session

\* start_subscription up to the read of the current subscription
start_subscription_read(session, team, plan_uuid) ==
    /\ Idle(session)
    /\ IF ~is_enterprise_mode_active
       THEN /\ last' = Response("start_subscription", team, plan_uuid, 403,
                                "Subscriptions are disabled in non-enterprise mode", None)
            /\ UNCHANGED inflight
       ELSE IF ~(plan_uuid \in DOMAIN plans /\ plans[plan_uuid].is_active)
       THEN /\ last' = Response("start_subscription", team, plan_uuid, 404,
                                "Plan not found", None)
            /\ UNCHANGED inflight
       ELSE /\ inflight' = inflight \cup
                  { InFlight(session, "start_subscription", team, plan_uuid,
                             _get_active_subscription(team)) }
            /\ last' = Response("start_subscription_read", team, plan_uuid, 0, "", None)
    /\ UNCHANGED <<is_enterprise_mode_active, now, tables>>

\* start_subscription_commit canceling the subscription that is active at the commit
start_subscription_commit_reread(r) ==
    LET current == _get_active_subscription(r.team)
        canceled == IF current # 0
                    THEN [subscriptions EXCEPT ![current].status = "canceled",
                                               ![current].cancel_at = <<now>>]
                    ELSE subscriptions
        subscription == Subscription(Len(subscriptions) + 1, r.team, r.req)
    IN  /\ r \in inflight
        /\ r.op = "start_subscription"
        /\ subscriptions' = Append(canceled, subscription)
        /\ inflight' = inflight \ {r}
        /\ last' = Response("start_subscription", r.team, r.req, 200, "",
                            IF plans[r.req].is_default THEN "started" ELSE "redirect_url")
        /\ UNCHANGED <<is_enterprise_mode_active, now, plans, jobs, proxy_servers>>

\* start_subscription from the update of the subscription read to db.commit()
start_subscription_commit(r) ==
    LET current == r.current
        canceled == IF current # 0
                    THEN [subscriptions EXCEPT ![current].status = "canceled",
                                               ![current].cancel_at = <<now>>]
                    ELSE subscriptions
        subscription == Subscription(Len(subscriptions) + 1, r.team, r.req)
    IN  /\ r \in inflight
        /\ r.op = "start_subscription"
        /\ subscriptions' = Append(canceled, subscription)
        /\ inflight' = inflight \ {r}
        /\ last' = Response("start_subscription", r.team, r.req, 200, "",
                            IF plans[r.req].is_default THEN "started" ELSE "redirect_url")
        /\ UNCHANGED <<is_enterprise_mode_active, now, plans, jobs, proxy_servers>>

(***************************************************************************)
(* Specification of concurrent start_subscription calls: metered, no       *)
(* subscription at first.                                                  *)
(***************************************************************************)
RacePlanInputs == {"free", "pro"}

NextStartRace ==
    \/ \E session \in Sessions, team \in Teams, plan_uuid \in RacePlanInputs :
          start_subscription_read(session, team, plan_uuid)
    \/ \E r \in inflight : start_subscription_commit(r) /\ WithinLedger'

SpecStartRace == InitSubs /\ [][NextStartRace]_vars

\* create_crawl_request up to the last check
create_crawl_request_read(session, team, payload) ==
    \E proxy \in ProxyLookup(team, payload.proxy_server) :
        LET exc == create_crawl_request_checks(team, payload, proxy)
        IN  /\ Idle(session)
            /\ IF exc.raised
               THEN /\ last' = Rejected("create_crawl_request", team, payload, exc)
                    /\ UNCHANGED inflight
               ELSE /\ inflight' = inflight \cup
                          { InFlight(session, "create_crawl_request", team, payload, 0) }
                    /\ last' = Response("create_crawl_request_read", team, payload, 0, "", None)
            /\ UNCHANGED <<is_enterprise_mode_active, now, tables>>

\* create_crawl_request_commit validating the concurrency again before the insert
create_crawl_request_commit_recheck(r) ==
    LET exc == _validate_concurrency(r.team, crawl_requests)
        item == CrawlRequest(Len(crawl_requests) + 1, r.team, <<"url">>, "single", r.req)
    IN  /\ r \in inflight
        /\ r.op = "create_crawl_request"
        /\ inflight' = inflight \ {r}
        /\ IF exc.raised
           THEN /\ last' = Rejected("create_crawl_request", r.team, r.req, exc)
                /\ UNCHANGED <<is_enterprise_mode_active, now, tables>>
           ELSE /\ crawl_requests' = Append(crawl_requests, item)
                /\ last' = Response("create_crawl_request", r.team, r.req, 201, "", item)
                /\ UNCHANGED <<is_enterprise_mode_active, now, plans, subscriptions,
                               search_requests, sitemap_requests, proxy_servers>>

\* create_crawl_request from db.add(item) to the response
create_crawl_request_commit(r) ==
    LET item == CrawlRequest(Len(crawl_requests) + 1, r.team, <<"url">>, "single", r.req)
    IN  /\ r \in inflight
        /\ r.op = "create_crawl_request"
        /\ inflight' = inflight \ {r}
        /\ crawl_requests' = Append(crawl_requests, item)
        /\ last' = Response("create_crawl_request", r.team, r.req, 201, "", item)
        /\ UNCHANGED <<is_enterprise_mode_active, now, plans, subscriptions,
                       search_requests, sitemap_requests, proxy_servers>>

\* create_search up to the last check
create_search_read(session, team, payload) ==
    LET exc == create_search_checks(team, payload)
    IN  /\ Idle(session)
        /\ IF exc.raised
           THEN /\ last' = Rejected("create_search", team, payload, exc)
                /\ UNCHANGED inflight
           ELSE /\ inflight' = inflight \cup
                      { InFlight(session, "create_search", team, payload, 0) }
                /\ last' = Response("create_search_read", team, payload, 0, "", None)
        /\ UNCHANGED <<is_enterprise_mode_active, now, tables>>

\* create_search from db.add(item) to the response
create_search_commit(r) ==
    LET item == SearchRequest(Len(search_requests) + 1, r.team, [depth |-> r.req.depth],
                              r.req.result_limit)
    IN  /\ r \in inflight
        /\ r.op = "create_search"
        /\ inflight' = inflight \ {r}
        /\ search_requests' = Append(search_requests, item)
        /\ last' = Response("create_search", r.team, r.req, 201, "", item)
        /\ UNCHANGED <<is_enterprise_mode_active, now, plans, subscriptions,
                       crawl_requests, sitemap_requests, proxy_servers>>

(***************************************************************************)
(* Specification of concurrent admission requests: metered, t1 on a plan   *)
(* of two concurrent jobs and t2 on a plan of one, no job at first.        *)
(***************************************************************************)
WithinRaced == TotalJobs <= MaxRaced

NextAdmitRace ==
    \/ \E session \in Sessions, team \in Teams, payload \in JobsCrawlInputs :
          create_crawl_request_read(session, team, payload)
    \/ \E r \in inflight : create_crawl_request_commit(r) /\ WithinRaced'
    \/ \E session \in Sessions, team \in Teams, payload \in JobsSearchInputs :
          create_search_read(session, team, payload)
    \/ \E r \in inflight : create_search_commit(r) /\ WithinRaced'
    \/ Tick /\ UNCHANGED inflight

SpecAdmitRace == InitJobs /\ [][NextAdmitRace]_vars

\* create_crawl_request up to the limits it resolves itself
create_crawl_request_resolve(session, team, payload) ==
    LET limits == _remaining_limits(team)
    IN  /\ Idle(session)
        /\ IF limits.raised
           THEN /\ last' = Rejected("create_crawl_request", team, payload, limits)
                /\ UNCHANGED inflight
           ELSE /\ inflight' = inflight \cup
                      { InFlight(session, "create_crawl_request_resolved", team, payload,
                                 limits) }
                /\ last' = Response("create_crawl_request_resolve", team, payload, 0, "", None)
        /\ UNCHANGED <<is_enterprise_mode_active, now, tables>>

\* create_crawl_request from _validate_concurrency, which resolves the limits
\* again on the rows committed by then, to the response
create_crawl_request_validate(r) ==
    \E proxy \in ProxyLookup(r.team, r.req.proxy_server) :
        LET limits == r.current
            payload == r.req
            conc == _validate_concurrency(r.team, crawl_requests)
            page_limit == payload.page_limit
            exc == IF conc.raised THEN conc
                   ELSE IF limits.remain # -1 /\ page_limit > limits.remain
                   THEN HTTPException(403, "You just have " \o ToString(limits.remain)
                                           \o " page credits left in your plan")
                   ELSE IF limits.remain_daily # -1 /\ page_limit > limits.remain_daily
                   THEN HTTPException(403, "You just have " \o ToString(limits.remain_daily)
                                           \o " daily pages left in your plan")
                   ELSE IF limits.max_depth # -1 /\ payload.max_depth > limits.max_depth
                   THEN HTTPException(403, "Your plan does not support more than "
                                           \o ToString(limits.max_depth) \o " depth")
                   ELSE _validate_proxy_access(r.team, payload.proxy_server,
                                               limits.allowed_proxy_categories, proxy)
            item == CrawlRequest(Len(crawl_requests) + 1, r.team, <<"url">>, "single", payload)
        IN  /\ r \in inflight
            /\ r.op = "create_crawl_request_resolved"
            /\ inflight' = inflight \ {r}
            /\ IF exc.raised
               THEN /\ last' = Rejected("create_crawl_request", r.team, payload, exc)
                    /\ UNCHANGED <<is_enterprise_mode_active, now, tables>>
               ELSE /\ crawl_requests' = Append(crawl_requests, item)
                    /\ last' = Response("create_crawl_request", r.team, payload, 201, "", item)
                    /\ UNCHANGED <<is_enterprise_mode_active, now, plans, subscriptions,
                                   search_requests, sitemap_requests, proxy_servers>>

(***************************************************************************)
(* Specification of subscription changes during a crawl request: the       *)
(* requests of t1 in two steps, start_subscription and                     *)
(* cancel_subscription of t1 in between; no subscription at first.         *)
(***************************************************************************)
ResolveCrawlInputs == { SpiderOptions(1, 6, None), SpiderOptions(1, 1, "prem") }

ResolvePlanInputs == {"free", "flat"}

WithinResolveRace == Len(subscriptions) <= MaxLedger /\ TotalJobs <= MaxRaced

NextResolveRace ==
    \/ \E session \in Sessions, payload \in ResolveCrawlInputs :
          create_crawl_request_resolve(session, "t1", payload)
    \/ \E r \in inflight : create_crawl_request_validate(r) /\ WithinResolveRace'
    \/ \E plan_uuid \in ResolvePlanInputs :
          start_subscription("t1", plan_uuid) /\ WithinResolveRace' /\ UNCHANGED inflight
    \/ cancel_subscription("t1") /\ UNCHANGED inflight

SpecResolveRace == InitSubs /\ [][NextResolveRace]_vars

(***************************************************************************)
(* Specification of the spent credits: metered, team t1 subscribed to the  *)
(* plan "free" or "flat" with one or both of its counters at 0, sends      *)
(* single crawls of every page_limit around 0, batches, searches of every  *)
(* result_limit and depth, and sitemaps.                                   *)
(***************************************************************************)
\* SpiderOptions.page_limit: int = 1, no bound
PageLimits == -1..2

\* Subscription.remain_page_credit and remain_daily_page_credit, one at 0 at least
SpentCounters == { <<0, 0>>, <<0, 5>>, <<5, 0>>, <<0, -1>>, <<-1, 0>> }

SpentSubscription(uuid, team, plan_id, counters) ==
    [Subscription(uuid, team, plan_id) EXCEPT !.remain_page_credit = counters[1],
                                              !.remain_daily_page_credit = counters[2]]

InitSpent ==
    /\ is_enterprise_mode_active = TRUE
    /\ now = 0
    /\ plans = PlanCatalog
    /\ subscriptions \in { << SpentSubscription(1, "t1", p, c) >> :
                              p \in {"free", "flat"}, c \in SpentCounters }
    /\ crawl_requests = <<>>
    /\ search_requests = <<>>
    /\ sitemap_requests = <<>>
    /\ proxy_servers = SeededProxies
    /\ last = Response("boot", None, None, 0, "", None)
    /\ inflight = {}

WithinSpent == TotalJobs <= MaxAdmitted

NextSpent ==
    \/ \E page_limit \in PageLimits :
          /\ create_crawl_request("t1", SpiderOptions(1, page_limit, None))
          /\ WithinSpent' /\ UNCHANGED inflight
    \/ \E n \in 1..2 :
          /\ batch_crawl_requests("t1", BatchPayload(n, SpiderOptions(1, 1, None)))
          /\ WithinSpent' /\ UNCHANGED inflight
    \/ \E result_limit \in ResultLimits, depth \in SearchDepths :
          /\ create_search("t1", SearchPayload(result_limit, depth))
          /\ WithinSpent' /\ UNCHANGED inflight
    \/ \E ignore_sitemap_xml \in BOOLEAN :
          /\ create_sitemap("t1", SitemapPayload(ignore_sitemap_xml, None))
          /\ WithinSpent' /\ UNCHANGED inflight

SpecSpent == InitSpent /\ [][NextSpent]_vars

(***************************************************************************)
(* Proxy servers of a team: create_proxy, patch_proxy, delete_proxy.  The  *)
(* handlers look at the rows of the calling team only.                     *)
(***************************************************************************)
OwnProxy(team, slug) == { p \in proxy_servers : p.team_id = team /\ p.slug = slug }

create_proxy(team, slug) ==
    /\ IF OwnProxy(team, slug) # {}
       THEN /\ last' = Response("create_proxy", team, slug, 400,
                                "Proxy Server with this slug already exists", None)
            /\ UNCHANGED proxy_servers
       ELSE LET item == ProxyServer(slug, PROXY_CATEGORY_TEAM, team)
            IN  /\ proxy_servers' = proxy_servers \cup {item}
                /\ last' = Response("create_proxy", team, slug, 201, "", item)
    /\ UNCHANGED <<is_enterprise_mode_active, now, plans, subscriptions, crawl_requests,
                   search_requests, sitemap_requests>>

patch_proxy(team, slug, payload_slug) ==
    LET req == [slug |-> slug, payload |-> payload_slug]
    IN  /\ IF OwnProxy(team, slug) = {}
           THEN /\ last' = Response("patch_proxy", team, req, 404,
                                    "Proxy server not found", None)
                /\ UNCHANGED proxy_servers
           ELSE LET item == CHOOSE p \in OwnProxy(team, slug) : TRUE
                    slug_exists == OwnProxy(team, payload_slug) \ {item}
                    patched == [item EXCEPT !.slug = payload_slug]
                IN  IF slug_exists # {}
                    THEN /\ last' = Response("patch_proxy", team, req, 400,
                                             "Proxy Server with this slug already exists", None)
                         /\ UNCHANGED proxy_servers
                    ELSE /\ proxy_servers' = (proxy_servers \ {item}) \cup {patched}
                         /\ last' = Response("patch_proxy", team, req, 200, "", patched)
        /\ UNCHANGED <<is_enterprise_mode_active, now, plans, subscriptions, crawl_requests,
                       search_requests, sitemap_requests>>

delete_proxy(team, slug) ==
    /\ IF OwnProxy(team, slug) = {}
       THEN /\ last' = Response("delete_proxy", team, slug, 404,
                                "Proxy server not found", None)
            /\ UNCHANGED proxy_servers
       ELSE /\ proxy_servers' = proxy_servers \ OwnProxy(team, slug)
            /\ last' = Response("delete_proxy", team, slug, 204, "", None)
    /\ UNCHANGED <<is_enterprise_mode_active, now, plans, subscriptions, crawl_requests,
                   search_requests, sitemap_requests>>

(***************************************************************************)
(* Specification of the proxy servers: metered, team t1 on the plan        *)
(* "free", the seeded proxies (two global ones, one of t1); both teams     *)
(* create, rename and delete proxies, and t1 sends crawls through them.    *)
(***************************************************************************)
ProxySlugs == {"prem", "mine", "own"}

InitProxy ==
    /\ is_enterprise_mode_active = TRUE
    /\ now = 0
    /\ plans = PlanCatalog
    /\ subscriptions = << Subscription(1, "t1", "free") >>
    /\ crawl_requests = <<>>
    /\ search_requests = <<>>
    /\ sitemap_requests = <<>>
    /\ proxy_servers = SeededProxies
    /\ last = Response("boot", None, None, 0, "", None)
    /\ inflight = {}

WithinProxy == TotalJobs <= MaxAdmitted

NextProxy ==
    \/ \E team \in Teams, slug \in ProxySlugs : create_proxy(team, slug) /\ UNCHANGED inflight
    \/ \E team \in Teams, slug \in ProxySlugs, payload_slug \in ProxySlugs :
          patch_proxy(team, slug, payload_slug) /\ UNCHANGED inflight
    \/ \E team \in Teams, slug \in ProxySlugs : delete_proxy(team, slug) /\ UNCHANGED inflight
    \/ \E slug \in ProxySlugs :
          /\ create_crawl_request("t1", SpiderOptions(1, 1, slug))
          /\ WithinProxy' /\ UNCHANGED inflight

SpecProxy == InitProxy /\ [][NextProxy]_vars

(***************************************************************************)
(* Specification of cancellations among concurrent start_subscription      *)
(* calls: the steps of SpecStartRace, cancel_subscription, and single      *)
(* crawl requests.                                                         *)
(***************************************************************************)
WithinCancelRace == Len(subscriptions) <= MaxLedger /\ TotalJobs <= MaxAdmitted

NextCancelRace ==
    \/ \E session \in Sessions, team \in Teams, plan_uuid \in RacePlanInputs :
          start_subscription_read(session, team, plan_uuid)
    \/ \E r \in inflight : start_subscription_commit(r) /\ WithinCancelRace'
    \/ \E team \in Teams : cancel_subscription(team) /\ UNCHANGED inflight
    \/ \E team \in Teams, payload \in JobsCrawlInputs :
          create_crawl_request(team, payload) /\ WithinCancelRace' /\ UNCHANGED inflight

SpecCancelRace == InitSubs /\ [][NextCancelRace]_vars

(***************************************************************************)
(* Vocabulary of the properties, stated on the tables themselves.          *)
(***************************************************************************)
AdmissionOps ==
    {"create_crawl_request", "batch_crawl_requests", "create_search", "create_sitemap"}

\* the rows of a team's subscriptions whose status is active
ActiveOf(team) ==
    { i \in DOMAIN subscriptions :
        subscriptions[i].team_id = team /\ subscriptions[i].status = "active" }

\* the team has an active subscription, and one only
Subscribed(team) == Cardinality(ActiveOf(team)) = 1

TheSubscription(team) == subscriptions[CHOOSE i \in ActiveOf(team) : TRUE]

ThePlan(team) == plans[TheSubscription(team).plan_id]

\* the table a kind of request is counted in and inserted into
TableOf(op) ==
    CASE op = "create_search" -> search_requests
      [] op = "create_sitemap" -> sitemap_requests
      [] OTHER -> crawl_requests

\* the jobs of a team in a table that are new or running and at most 2 hours old
Counted(team, table) ==
    { i \in DOMAIN table :
        /\ table[i].team_id = team
        /\ table[i].status \in {"new", "running"}
        /\ now - table[i].created_at <= 2 }

\* the concurrency ceiling of the team's plan is reached for a kind of request
CeilingReached(team, op) ==
    /\ ThePlan(team).max_concurrent_crawl # -1
    /\ Cardinality(Counted(team, TableOf(op))) >= ThePlan(team).max_concurrent_crawl

\* the cost table of the specification
CostOf(op, payload) ==
    CASE op = "create_crawl_request" -> payload.page_limit
      [] op = "batch_crawl_requests" -> Len(payload.urls)
      [] op = "create_search" ->
            payload.result_limit * (CASE payload.depth = "advanced" -> 2
                                      [] payload.depth = "ultimate" -> 3
                                      [] OTHER -> 1)
      [] op = "create_sitemap" -> IF payload.ignore_sitemap_xml THEN 10 ELSE 1

\* the proxy slug a request names, None for a search
SlugOf(op, payload) ==
    CASE op = "create_crawl_request" -> payload.proxy_server
      [] op = "batch_crawl_requests" -> payload.spider_options.proxy_server
      [] op = "create_sitemap" -> payload.proxy_server
      [] OTHER -> None

\* the proxies a team sees under a slug: its own and the global ones
VisibleProxies(team, slug) ==
    { p \in proxy_servers : p.slug = slug /\ p.team_id \in {team, None} }

\* what the handler of a request answers: the exception raised, or NoException
ChecksOf(op, team, payload, proxy) ==
    CASE op = "create_crawl_request" -> create_crawl_request_checks(team, payload, proxy)
      [] op = "batch_crawl_requests" -> batch_crawl_requests_checks(team, payload, proxy)
      [] op = "create_search" -> create_search_checks(team, payload)
      [] op = "create_sitemap" -> create_sitemap_checks(team, payload, proxy)

\* the amounts and limits a message can carry
Amounts ==
    UNION { {plans[p].page_credit, plans[p].daily_page_credit,
             plans[p].crawl_max_depth, plans[p].max_concurrent_crawl} : p \in DOMAIN plans }

NoSubscriptionMessage == "You have no active subscription"

PlanCreditMessages(remain) ==
    { "You just have " \o ToString(remain) \o " page credits left in your plan",
      "You just have " \o ToString(remain) \o " credits left in your plan" }

DailyCreditMessages(remain_daily) ==
    { "You just have " \o ToString(remain_daily) \o " daily pages left in your plan",
      "You just have " \o ToString(remain_daily) \o " daily credits left in your plan" }

DepthMessage(max_depth) ==
    "Your plan does not support more than " \o ToString(max_depth) \o " depth"

ConcurrencyMessage(max_concurrent) ==
    "Your plan does not support more than " \o ToString(max_concurrent) \o " concurrent tasks"

ProxyNotFoundMessage == "Proxy server does not exist"

ProxyDeniedMessage == "With the current plan you cannot use this proxy server"

\* the rejections InsufficientCredit, DepthLimitExceeded, ConcurrencyLimitExceeded
\* and NoActiveSubscription, whatever amount they cite
LimitMessages ==
    UNION { PlanCreditMessages(n) \cup DailyCreditMessages(n)
            \cup {DepthMessage(n), ConcurrencyMessage(n)} : n \in Amounts }
    \cup {NoSubscriptionMessage}

\* the requests the properties range over
SomeCrawlPayloads ==
    { SpiderOptions(d, l, s) : d \in {3, 4}, l \in {0, 5, 6, 101}, s \in {None, "ghost"} }

(***************************************************************************)
(* C1.  In metered mode, when the concurrency check passes, a single crawl *)
(* request is rejected for its plan credit exactly when its page_limit is  *)
(* greater than the remain_page_credit of the active subscription, so that *)
(* page_limit equal to remain_page_credit passes the plan credit check.    *)
(* C1_Original is the claim as stated, for every request handled;          *)
(* C1_PlanCredit is the claim for the subscriptions whose                  *)
(* remain_page_credit is not -1 (unlimited), for every request that can    *)
(* be sent in every reachable state.                                       *)
(***************************************************************************)
C1_OriginalStep ==
    LET team == last'.team
        remain == TheSubscription(team).remain_page_credit
    IN  (/\ last'.op = "create_crawl_request"
         /\ is_enterprise_mode_active
         /\ Subscribed(team)
         /\ ~CeilingReached(team, "create_crawl_request"))
        => ((last'.status_code = 403 /\ last'.detail \in PlanCreditMessages(remain))
            <=> last'.req.page_limit > remain)

C1_Original == [][C1_OriginalStep]_vars

C1_PlanCredit ==
    \A team \in Teams, payload \in SomeCrawlPayloads :
        \A proxy \in ProxyLookup(team, payload.proxy_server) :
            (/\ is_enterprise_mode_active
             /\ Subscribed(team)
             /\ ~CeilingReached(team, "create_crawl_request")
             /\ TheSubscription(team).remain_page_credit # -1)
            => LET remain == TheSubscription(team).remain_page_credit
                   exc == create_crawl_request_checks(team, payload, proxy)
               IN  (/\ exc.raised
                    /\ exc.status_code = 403
                    /\ exc.detail = "You just have " \o ToString(remain)
                                    \o " page credits left in your plan")
                   <=> payload.page_limit > remain

\* remain_page_credit 5: the request with page_limit 6 has been rejected for the plan credit
C1_Witness ==
    /\ is_enterprise_mode_active
    /\ last.op = "create_crawl_request"
    /\ last.req.page_limit = 6
    /\ last.status_code = 403
    /\ last.detail = "You just have 5 page credits left in your plan"
    /\ Subscribed(last.team)
    /\ TheSubscription(last.team).remain_page_credit = 5

(***************************************************************************)
(* C2.  In metered mode with a max_concurrent other than -1, an admission  *)
(* request of a kind by a team is rejected with 403 "Your plan does not    *)
(* support more than N concurrent tasks" exactly when the jobs of that     *)
(* team and kind that are new or running and were created within the last  *)
(* 2 hours number at least max_concurrent.  Single and batch crawls are    *)
(* one kind; jobs of other kinds, of other teams, in other statuses or     *)
(* older are not counted.  The requests are within every other limit, so   *)
(* that below the ceiling they are admitted.                               *)
(***************************************************************************)
JobsRequests ==
    ({"create_crawl_request"} \X JobsCrawlInputs)
    \cup ({"batch_crawl_requests"} \X JobsBatchInputs)
    \cup ({"create_search"} \X JobsSearchInputs)
    \cup ({"create_sitemap"} \X JobsSitemapInputs)

C2_ConcurrencyCeiling ==
    \A team \in Teams, r \in JobsRequests :
        \A proxy \in ProxyLookup(team, SlugOf(r[1], r[2])) :
            (/\ is_enterprise_mode_active
             /\ Subscribed(team)
             /\ ThePlan(team).max_concurrent_crawl # -1)
            => LET max_concurrent == ThePlan(team).max_concurrent_crawl
                   counted == Cardinality(Counted(team, TableOf(r[1])))
                   exc == ChecksOf(r[1], team, r[2], proxy)
               IN  /\ exc = HTTPException(403, ConcurrencyMessage(max_concurrent))
                      <=> counted >= max_concurrent
                   /\ counted < max_concurrent => ~exc.raised

\* ceiling 2: with a single and a batch crawl of the team new or running, and
\* created within 2 hours, its next crawl has been rejected
C2_Witness ==
    /\ is_enterprise_mode_active
    /\ last.op = "create_crawl_request"
    /\ last.status_code = 403
    /\ last.detail = "Your plan does not support more than 2 concurrent tasks"
    /\ ThePlan(last.team).max_concurrent_crawl = 2
    /\ \E i, j \in Counted(last.team, crawl_requests) :
          /\ crawl_requests[i].crawl_type = "single"
          /\ crawl_requests[j].crawl_type = "batch"

\* the requests of the four kinds the properties range over
SomeRequests ==
    ({"create_crawl_request"} \X SomeCrawlPayloads)
    \cup ({"batch_crawl_requests"} \X BatchInputs)
    \cup ({"create_search"} \X SearchInputs)
    \cup ({"create_sitemap"} \X SitemapInputs)

\* the request is not stopped by the concurrency, credit and depth checks
PassesEarlier(op, team, payload) ==
    LET sub == TheSubscription(team)
        cost == CostOf(op, payload)
    IN  /\ ~CeilingReached(team, op)
        /\ sub.remain_page_credit = -1 \/ cost <= sub.remain_page_credit
        /\ sub.remain_daily_page_credit = -1 \/ cost <= sub.remain_daily_page_credit
        /\ op = "create_crawl_request" =>
              (ThePlan(team).crawl_max_depth = -1
               \/ payload.max_depth <= ThePlan(team).crawl_max_depth)

(***************************************************************************)
(* C3.  Every rejected admission request, whichever check fails, leaves    *)
(* the crawl, search and sitemap tables as they were.                      *)
(***************************************************************************)
C3_RejectedStep ==
    (last'.op \in AdmissionOps /\ last'.status_code # 201)
    => /\ crawl_requests' = crawl_requests
       /\ search_requests' = search_requests
       /\ sitemap_requests' = sitemap_requests

C3_RejectionKeepsTables == [][C3_RejectedStep]_vars

\* a crawl has been rejected by the last check, the proxy guard, with a job in the table
C3_Witness ==
    /\ last.op = "create_crawl_request"
    /\ last.status_code = 400
    /\ Len(crawl_requests) = 1

(***************************************************************************)
(* C4.  In unmetered mode the resolver returns -1 for the remaining        *)
(* credit, the remaining daily credit, the depth limit and the             *)
(* concurrency limit, is_default false and the categories team, general    *)
(* and premium, whatever subscriptions and plans are persisted.            *)
(***************************************************************************)
C4_UnmeteredLimits ==
    ~is_enterprise_mode_active =>
        \A team \in Teams :
            LET limits == _remaining_limits(team)
            IN  /\ ~limits.raised
                /\ limits.remain = -1
                /\ limits.remain_daily = -1
                /\ limits.max_depth = -1
                /\ limits.max_concurrent = -1
                /\ limits.is_default = FALSE
                /\ limits.allowed_proxy_categories = {"team", "general", "premium"}

\* unmetered, with an active subscription to the default plan persisted, a
\* crawl of 6 pages has been admitted against a remaining credit of 5
C4_Witness ==
    /\ ~is_enterprise_mode_active
    /\ last.op = "create_crawl_request"
    /\ last.status_code = 201
    /\ last.req.page_limit = 6
    /\ Subscribed(last.team)
    /\ ThePlan(last.team).is_default
    /\ TheSubscription(last.team).remain_page_credit = 5

(***************************************************************************)
(* C5.  In unmetered mode no crawl, batch crawl, search or sitemap         *)
(* request is rejected for insufficient credit, for the depth limit, for   *)
(* the concurrency limit or for the missing subscription, whatever the     *)
(* request asks for and whatever jobs are new or running.                  *)
(***************************************************************************)
C5_UnmeteredNeverLimited ==
    ~is_enterprise_mode_active =>
        \A team \in Teams, r \in SomeRequests :
            \A proxy \in ProxyLookup(team, SlugOf(r[1], r[2])) :
                LET exc == ChecksOf(r[1], team, r[2], proxy)
                IN  exc.raised => exc.detail \notin LimitMessages

\* unmetered, a team without any subscription has had a batch of 6 urls admitted
C5_Witness ==
    /\ ~is_enterprise_mode_active
    /\ last.op = "batch_crawl_requests"
    /\ last.status_code = 201
    /\ Len(last.req.urls) = 6
    /\ ActiveOf(last.team) = {}

(***************************************************************************)
(* C6.  In metered mode a team with no active subscription (it has none,   *)
(* or all of them are canceled) has every admission request rejected with  *)
(* 403 "You have no active subscription", whatever else the request would  *)
(* fail, and no job is persisted.                                          *)
(***************************************************************************)
C6_NoSubscriptionStep ==
    (/\ last'.op \in AdmissionOps
     /\ is_enterprise_mode_active
     /\ ActiveOf(last'.team) = {})
    => /\ last'.status_code = 403
       /\ last'.detail = "You have no active subscription"
       /\ jobs' = jobs

C6_NoSubscription == [][C6_NoSubscriptionStep]_vars

\* metered, the only subscription of the team is canceled, and its sitemap
\* request has been rejected for the missing subscription
C6_Witness ==
    /\ is_enterprise_mode_active
    /\ last.op = "create_sitemap"
    /\ last.status_code = 403
    /\ last.detail = "You have no active subscription"
    /\ ActiveOf(last.team) = {}
    /\ \E i \in DOMAIN subscriptions :
          subscriptions[i].team_id = last.team /\ subscriptions[i].status = "canceled"

(***************************************************************************)
(* C7.  In metered mode the allowed categories are team and general, plus  *)
(* premium exactly when the plan is not the default plan; a crawl or       *)
(* sitemap request naming a premium proxy is rejected with 403 "With the   *)
(* current plan you cannot use this proxy server" on the default plan and  *)
(* passes the proxy check on any other plan; team and general proxies pass *)
(* under every plan.                                                       *)
(* C7_Original is the claim as stated, for every request handled;          *)
(* C7_ProxyGating is the claim with the rejection on the default plan      *)
(* stated for the requests that pass the concurrency, credit and depth     *)
(* checks, which come first.                                               *)
(***************************************************************************)
ProxyOps == {"create_crawl_request", "batch_crawl_requests", "create_sitemap"}

\* the categories of the proxies the team sees under the slug
CategoriesOf(team, slug) == { p.category : p \in VisibleProxies(team, slug) }

C7_AllowedCategories ==
    \A team \in Teams :
        (is_enterprise_mode_active /\ Subscribed(team))
        => _remaining_limits(team).allowed_proxy_categories
             = {"team", "general"}
               \cup (IF ThePlan(team).is_default THEN {} ELSE {"premium"})

C7_OriginalStep ==
    LET team == last'.team
        cats == CategoriesOf(team, SlugOf(last'.op, last'.req))
        denied == /\ last'.status_code = 403
                  /\ last'.detail = ProxyDeniedMessage
    IN  (/\ last'.op \in ProxyOps
         /\ is_enterprise_mode_active
         /\ Subscribed(team)
         /\ cats # {})
        => /\ (cats = {"premium"} /\ ThePlan(team).is_default) => denied
           /\ (cats = {"premium"} /\ ~ThePlan(team).is_default) => ~denied
           /\ cats \subseteq {"team", "general"} => ~denied

C7_Original == [](C7_AllowedCategories) /\ [][C7_OriginalStep]_vars

ProxyRequests ==
    ({"create_crawl_request"} \X
        { SpiderOptions(d, l, s) : d \in {3, 4}, l \in {2, 6}, s \in {"gen", "prem", "mine"} })
    \cup ({"batch_crawl_requests"} \X
        { BatchPayload(n, SpiderOptions(1, 1, s)) : n \in {2, 6}, s \in {"gen", "prem", "mine"} })
    \cup ({"create_sitemap"} \X
        { SitemapPayload(i, s) : i \in BOOLEAN, s \in {"gen", "prem", "mine"} })

C7_ProxyGating ==
    /\ C7_AllowedCategories
    /\ \A team \in Teams, r \in ProxyRequests :
          \A proxy \in ProxyLookup(team, SlugOf(r[1], r[2])) :
              LET cats == CategoriesOf(team, SlugOf(r[1], r[2]))
                  exc == ChecksOf(r[1], team, r[2], proxy)
                  denied == exc = HTTPException(403, ProxyDeniedMessage)
              IN  (/\ is_enterprise_mode_active
                   /\ Subscribed(team)
                   /\ cats # {})
                  => /\ (cats = {"premium"} /\ ThePlan(team).is_default
                         /\ PassesEarlier(r[1], team, r[2])) => denied
                     /\ (cats = {"premium"} /\ ~ThePlan(team).is_default) => ~denied
                     /\ cats \subseteq {"team", "general"} => ~denied
                     /\ (~denied /\ PassesEarlier(r[1], team, r[2])) => ~exc.raised

\* on the default plan a crawl within every limit has been refused the premium proxy
C7_Witness ==
    /\ is_enterprise_mode_active
    /\ last.op = "create_crawl_request"
    /\ last.req.proxy_server = "prem"
    /\ last.status_code = 403
    /\ last.detail = "With the current plan you cannot use this proxy server"
    /\ Subscribed(last.team)
    /\ ThePlan(last.team).is_default

(***************************************************************************)
(* C8.  The proxy guard passes without looking anything up when the slug   *)
(* is empty or absent.  For a non-empty slug it raises 400 "Proxy server   *)
(* does not exist" when no proxy with that slug is owned by the team or    *)
(* global (a proxy of another team counts as absent), and 403 "With the    *)
(* current plan you cannot use this proxy server" when the proxy found has *)
(* a category outside the allowed ones.                                    *)
(***************************************************************************)
AllSlugs == {None, "", "gen", "prem", "mine", "ghost"}

AllCategories == {"team", "general", "premium"}

\* whatever a lookup could return, had one been made
AnyProxy == {{}} \cup { {p} : p \in proxy_servers }

C8_ProxyGuard ==
    \A team \in Teams, slug \in AllSlugs, allowed \in SUBSET AllCategories :
        /\ slug \in {None, ""} =>
              \A proxy \in AnyProxy :
                  _validate_proxy_access(team, slug, allowed, proxy) = NoException
        /\ (slug \notin {None, ""} /\ VisibleProxies(team, slug) = {}) =>
              \A proxy \in ProxyLookup(team, slug) :
                  _validate_proxy_access(team, slug, allowed, proxy)
                      = HTTPException(400, "Proxy server does not exist")
        /\ (slug \notin {None, ""} /\ VisibleProxies(team, slug) # {}) =>
              \A proxy \in ProxyLookup(team, slug) :
                  /\ proxy \subseteq VisibleProxies(team, slug)
                  /\ proxy # {}
                  /\ \A p \in proxy :
                        _validate_proxy_access(team, slug, allowed, proxy)
                            = IF p.category \in allowed
                              THEN NoException
                              ELSE HTTPException(403,
                                     "With the current plan you cannot use this proxy server")

\* a crawl naming the proxy of another team has been rejected: the proxy does not exist
C8_Witness ==
    /\ last.op = "create_crawl_request"
    /\ last.status_code = 400
    /\ last.detail = "Proxy server does not exist"
    /\ \E p \in proxy_servers :
          /\ p.slug = last.req.proxy_server
          /\ p.team_id \notin {last.team, None}

(***************************************************************************)
(* C9.  In metered mode with a crawl_max_depth other than -1, a single     *)
(* crawl request that passes the concurrency and credit checks is rejected *)
(* with 403 "Your plan does not support more than N depth" exactly when    *)
(* its max_depth is greater than the plan's crawl_max_depth; with          *)
(* max_depth equal to the limit and no proxy named it is admitted.  Search *)
(* and sitemap requests are never rejected for the depth.                  *)
(***************************************************************************)
DepthPayloads ==
    { SpiderOptions(d, 2, s) : d \in {0, 3, 4, 10, 11}, s \in {None, "ghost"} }

C9_DepthLimit ==
    /\ \A team \in Teams, payload \in DepthPayloads :
          \A proxy \in ProxyLookup(team, payload.proxy_server) :
              (/\ is_enterprise_mode_active
               /\ Subscribed(team)
               /\ ThePlan(team).crawl_max_depth # -1
               /\ ~CeilingReached(team, "create_crawl_request")
               /\ LET sub == TheSubscription(team)
                  IN  /\ sub.remain_page_credit = -1
                         \/ payload.page_limit <= sub.remain_page_credit
                      /\ sub.remain_daily_page_credit = -1
                         \/ payload.page_limit <= sub.remain_daily_page_credit)
              => LET limit == ThePlan(team).crawl_max_depth
                     exc == create_crawl_request_checks(team, payload, proxy)
                 IN  /\ exc = HTTPException(403, DepthMessage(limit))
                        <=> payload.max_depth > limit
                     /\ (payload.max_depth = limit /\ payload.proxy_server = None)
                        => ~exc.raised
    /\ \A team \in Teams, r \in SomeRequests :
          r[1] \in {"create_search", "create_sitemap"} =>
              \A proxy \in ProxyLookup(team, SlugOf(r[1], r[2])) :
                  LET exc == ChecksOf(r[1], team, r[2], proxy)
                  IN  exc.raised => exc.detail \notin { DepthMessage(n) : n \in Amounts }

\* depth limit 3: the crawl of depth 4 has been rejected for its depth
C9_Witness ==
    /\ is_enterprise_mode_active
    /\ last.op = "create_crawl_request"
    /\ last.req.max_depth = 4
    /\ last.status_code = 403
    /\ last.detail = "Your plan does not support more than 3 depth"
    /\ Subscribed(last.team)
    /\ ThePlan(last.team).crawl_max_depth = 3

(***************************************************************************)
(* C10.  A request whose cost is within remain_page_credit but exceeds     *)
(* remain_daily_page_credit is rejected citing the daily limit and the     *)
(* remaining daily amount, not the plan limit; this for a single crawl, a  *)
(* batch crawl, a search and a sitemap.                                    *)
(* C10_Original is the claim as stated, for every request handled;         *)
(* C10_DailyCited is the claim for the requests that pass the concurrency  *)
(* check, which comes first, under a remain_daily_page_credit other than   *)
(* -1 (unlimited).                                                         *)
(***************************************************************************)
C10_OriginalStep ==
    LET team == last'.team
        sub == TheSubscription(team)
        cost == CostOf(last'.op, last'.req)
    IN  (/\ last'.op \in AdmissionOps
         /\ is_enterprise_mode_active
         /\ Subscribed(team)
         /\ cost <= sub.remain_page_credit
         /\ cost > sub.remain_daily_page_credit)
        => /\ last'.status_code = 403
           /\ last'.detail \in DailyCreditMessages(sub.remain_daily_page_credit)

C10_Original == [][C10_OriginalStep]_vars

C10_DailyCited ==
    \A team \in Teams, r \in SomeRequests :
        \A proxy \in ProxyLookup(team, SlugOf(r[1], r[2])) :
            (/\ is_enterprise_mode_active
             /\ Subscribed(team)
             /\ ~CeilingReached(team, r[1])
             /\ TheSubscription(team).remain_daily_page_credit # -1
             /\ CostOf(r[1], r[2]) <= TheSubscription(team).remain_page_credit
             /\ CostOf(r[1], r[2]) > TheSubscription(team).remain_daily_page_credit)
            => LET exc == ChecksOf(r[1], team, r[2], proxy)
                   daily == TheSubscription(team).remain_daily_page_credit
               IN  /\ exc.raised
                   /\ exc.status_code = 403
                   /\ exc.detail \in DailyCreditMessages(daily)
                   /\ exc.detail \notin
                         PlanCreditMessages(TheSubscription(team).remain_page_credit)

\* plan credit 100, daily credit 2: the search of cost 5 has been rejected citing the 2
C10_Witness ==
    /\ is_enterprise_mode_active
    /\ last.op = "create_search"
    /\ CostOf(last.op, last.req) = 5
    /\ last.status_code = 403
    /\ last.detail = "You just have 2 daily credits left in your plan"
    /\ Subscribed(last.team)
    /\ TheSubscription(last.team).remain_page_credit = 100
    /\ TheSubscription(last.team).remain_daily_page_credit = 2


(***************************************************************************)
(* C11.  Every admitted batch crawl of n urls (n >= 1) is persisted with   *)
(* crawl type batch, max_depth 0 and page_limit n, whatever max_depth and  *)
(* page_limit the client sent, and with its other spider options, the      *)
(* proxy_server among them, as sent.  Its cost is n: an admitted batch is  *)
(* within the credit counters with n, and a batch below the concurrency    *)
(* ceiling is rejected for the plan credit exactly when n exceeds a        *)
(* remain_page_credit other than -1.                                       *)
(***************************************************************************)
C11_BatchStep ==
    LET team == last'.team
        n == Len(last'.req.urls)
        sent == last'.req.spider_options
        row == crawl_requests'[Len(crawl_requests')]
    IN  last'.op = "batch_crawl_requests" =>
        /\ last'.status_code = 201 =>
              /\ n >= 1
              /\ crawl_requests' = Append(crawl_requests, row)
              /\ row.crawl_type = "batch"
              /\ row.urls = last'.req.urls
              /\ row.options.max_depth = 0
              /\ row.options.page_limit = n
              /\ row.options.proxy_server = sent.proxy_server
              /\ DOMAIN row.options = DOMAIN sent
        /\ (is_enterprise_mode_active /\ Subscribed(team)) =>
              LET sub == TheSubscription(team)
              IN  /\ last'.status_code = 201 =>
                        /\ sub.remain_page_credit = -1 \/ n <= sub.remain_page_credit
                        /\ sub.remain_daily_page_credit = -1
                           \/ n <= sub.remain_daily_page_credit
                  /\ ~CeilingReached(team, "batch_crawl_requests") =>
                        ((/\ last'.status_code = 403
                          /\ last'.detail \in PlanCreditMessages(sub.remain_page_credit))
                         <=> (sub.remain_page_credit # -1 /\ n > sub.remain_page_credit))

C11_BatchNormalised == [][C11_BatchStep]_vars

\* a batch of 6 urls sent with max_depth 1, page_limit 1 and the premium proxy
\* has been admitted and persisted with max_depth 0, page_limit 6 and that proxy
C11_Witness ==
    /\ last.op = "batch_crawl_requests"
    /\ last.status_code = 201
    /\ Len(last.req.urls) = 6
    /\ last.req.spider_options = SpiderOptions(1, 1, "prem")
    /\ crawl_requests # <<>>
    /\ crawl_requests[Len(crawl_requests)].crawl_type = "batch"
    /\ crawl_requests[Len(crawl_requests)].options = SpiderOptions(0, 6, "prem")


(***************************************************************************)
(* C12.  The cost compared against the credit counters is, for a search,   *)
(* result_limit times 1 for depth basic, 2 for advanced and 3 for          *)
(* ultimate (result_limit 5: advanced 10, ultimate 15), and for a sitemap  *)
(* 10 when ignore_sitemap_xml is set and 1 otherwise, for every            *)
(* result_limit in 1..20.  The handlers below the concurrency ceiling      *)
(* reject for the plan credit exactly when that cost exceeds               *)
(* remain_page_credit, else for the daily credit exactly when it exceeds   *)
(* remain_daily_page_credit, and admit otherwise.                          *)
(***************************************************************************)
C12_Formulas ==
    /\ \A result_limit \in 1..20 :
          /\ _search_credit_cost(result_limit, "basic") = result_limit
          /\ _search_credit_cost(result_limit, "advanced") = 2 * result_limit
          /\ _search_credit_cost(result_limit, "ultimate") = 3 * result_limit
    /\ _search_credit_cost(5, "advanced") = 10
    /\ _search_credit_cost(5, "ultimate") = 15
    /\ _sitemap_credit_cost(TRUE) = 10
    /\ _sitemap_credit_cost(FALSE) = 1

C12_ComparedStep ==
    LET team == last'.team
        sub == TheSubscription(team)
        cost == IF last'.op = "create_search"
                THEN last'.req.result_limit
                     * (CASE last'.req.depth = "basic" -> 1
                          [] last'.req.depth = "advanced" -> 2
                          [] last'.req.depth = "ultimate" -> 3)
                ELSE IF last'.req.ignore_sitemap_xml THEN 10 ELSE 1
        overPlan == sub.remain_page_credit # -1 /\ cost > sub.remain_page_credit
        overDaily == sub.remain_daily_page_credit # -1 /\ cost > sub.remain_daily_page_credit
    IN  (/\ last'.op \in {"create_search", "create_sitemap"}
         /\ Subscribed(team)
         /\ ~CeilingReached(team, last'.op))
        => /\ overPlan =>
                 /\ last'.status_code = 403
                 /\ last'.detail \in PlanCreditMessages(sub.remain_page_credit)
           /\ (~overPlan /\ overDaily) =>
                 /\ last'.status_code = 403
                 /\ last'.detail \in DailyCreditMessages(sub.remain_daily_page_credit)
           /\ (~overPlan /\ ~overDaily) => last'.status_code = 201

C12_CostFormulas == [](C12_Formulas) /\ [][C12_ComparedStep]_vars

\* remaining credit 5: the advanced search of 3 results, cost 6, has been
\* rejected for the plan credit
C12_Witness ==
    /\ last.op = "create_search"
    /\ last.req = SearchPayload(3, "advanced")
    /\ last.status_code = 403
    /\ last.detail = "You just have 5 credits left in your plan"
    /\ TheSubscription(last.team).remain_page_credit = 5


(***************************************************************************)
(* C13.  No admission request (single crawl, batch crawl, search,          *)
(* sitemap), admitted or rejected, and no job cancellation changes         *)
(* remain_page_credit or remain_daily_page_credit of any subscription:     *)
(* in every reachable state the counters are those set when the            *)
(* subscription was started, the credits of its plan.                      *)
(***************************************************************************)
CancellationOps == {"delete_crawl_request", "delete_search", "delete_sitemap"}

C13_CountersAsStarted ==
    \A i \in DOMAIN subscriptions :
        /\ subscriptions[i].remain_page_credit
              = plans[subscriptions[i].plan_id].page_credit
        /\ subscriptions[i].remain_daily_page_credit
              = plans[subscriptions[i].plan_id].daily_page_credit

C13_CountersStep ==
    last'.op \in AdmissionOps \cup CancellationOps =>
        /\ DOMAIN subscriptions' = DOMAIN subscriptions
        /\ \A i \in DOMAIN subscriptions :
              /\ subscriptions'[i].remain_page_credit = subscriptions[i].remain_page_credit
              /\ subscriptions'[i].remain_daily_page_credit
                    = subscriptions[i].remain_daily_page_credit

C13_NeverDeducted == [](C13_CountersAsStarted) /\ [][C13_CountersStep]_vars

\* after an admitted crawl of 1 page, then set to canceling by its team, and a
\* rejected request, the team's counters are the 5 and 5 of its plan
C13_Witness ==
    /\ last.op \in AdmissionOps
    /\ last.status_code = 403
    /\ \E i \in DOMAIN crawl_requests :
          /\ crawl_requests[i].team_id = last.team
          /\ crawl_requests[i].status = "canceling"
    /\ \E j \in DOMAIN crawl_requests :
          /\ crawl_requests[j].team_id = last.team
          /\ crawl_requests[j].status = "new"
    /\ TheSubscription(last.team).remain_page_credit = 5
    /\ TheSubscription(last.team).remain_daily_page_credit = 5


(***************************************************************************)
(* C14.  Every admitted request persists exactly one new job row, in       *)
(* status new and owned by the requesting team (the row has one owner);    *)
(* the other rows and tables are untouched, and the job returned to the    *)
(* client is that row, with status new.                                    *)
(***************************************************************************)
C14_AdmittedStep ==
    LET op == last'.op
        before == TableOf(op)
        after == CASE op = "create_search" -> search_requests'
                   [] op = "create_sitemap" -> sitemap_requests'
                   [] OTHER -> crawl_requests'
        row == after[Len(after)]
    IN  (op \in AdmissionOps /\ last'.status_code = 201) =>
        /\ Len(after) = Len(before) + 1
        /\ after = Append(before, row)
        /\ row.status = "new"
        /\ row.team_id = last'.team
        /\ last'.item = row
        /\ last'.item.status = "new"
        /\ op \notin {"create_crawl_request", "batch_crawl_requests"}
              => crawl_requests' = crawl_requests
        /\ op # "create_search" => search_requests' = search_requests
        /\ op # "create_sitemap" => sitemap_requests' = sitemap_requests

C14_OneNewRow == [][C14_AdmittedStep]_vars

\* a sitemap request has been admitted: the one row of the three tables is
\* its job, new, of the requesting team, and the job returned
C14_Witness ==
    /\ last.op = "create_sitemap"
    /\ last.status_code = 201
    /\ Len(sitemap_requests) = 1
    /\ sitemap_requests[1].status = "new"
    /\ sitemap_requests[1].team_id = last.team
    /\ last.item = sitemap_requests[1]
    /\ crawl_requests = <<>>
    /\ search_requests = <<>>


(***************************************************************************)
(* C15.  For each kind of job, a cancellation (delete) request of a team   *)
(* on one of its own jobs succeeds only when the job is running, and then  *)
(* sets it to canceling; on a job that is new, canceling, canceled,        *)
(* finished or failed it is rejected with 403 "Only running ... requests   *)
(* can be deleted" and nothing changes, so that a second cancellation of   *)
(* the same job is rejected.                                               *)
(***************************************************************************)
\* the table a cancellation looks its job up in
CancelTableOf(op) ==
    CASE op = "delete_crawl_request" -> crawl_requests
      [] op = "delete_search" -> search_requests
      [] op = "delete_sitemap" -> sitemap_requests

InvalidStateMessage(op) ==
    CASE op = "delete_crawl_request" -> "Only running crawl requests can be deleted"
      [] op = "delete_search" -> "Only running search requests can be deleted"
      [] op = "delete_sitemap" -> "Only running sitemap requests can be deleted"

C15_CancelStep ==
    LET op == last'.op
        uuid == last'.req
        table == CancelTableOf(op)
        after == CASE op = "delete_crawl_request" -> crawl_requests'
                   [] op = "delete_search" -> search_requests'
                   [] op = "delete_sitemap" -> sitemap_requests'
    IN  (/\ op \in CancellationOps
         /\ uuid \in DOMAIN table
         /\ table[uuid].team_id = last'.team)
        => IF table[uuid].status = "running"
           THEN /\ last'.status_code = 204
                /\ after = [table EXCEPT ![uuid].status = "canceling"]
           ELSE /\ last'.status_code = 403
                /\ last'.detail = InvalidStateMessage(op)
                /\ jobs' = jobs

C15_OnlyRunning == [][C15_CancelStep]_vars

\* the second cancellation of a crawl, by then canceling, has been rejected
C15_Witness ==
    /\ last.op = "delete_crawl_request"
    /\ last.status_code = 403
    /\ last.req \in DOMAIN crawl_requests
    /\ crawl_requests[last.req].team_id = last.team
    /\ crawl_requests[last.req].status = "canceling"


(***************************************************************************)
(* C16.  In a sequence of start_subscription, cancel_subscription and      *)
(* renew_subscription calls, each atomic, on teams that have no            *)
(* subscription at first, a team has at most one subscription of status    *)
(* active in every reachable state; right after a successful               *)
(* start_subscription exactly one is active, the one just created, and     *)
(* the one active before has been set to canceled by that call.            *)
(***************************************************************************)
C16_AtMostOneActive ==
    \A team \in Teams : Cardinality(ActiveOf(team)) <= 1

C16_StartStep ==
    LET team == last'.team
        new == Len(subscriptions')
    IN  (last'.op = "start_subscription" /\ last'.status_code = 200) =>
        /\ new = Len(subscriptions) + 1
        /\ subscriptions'[new].team_id = team
        /\ subscriptions'[new].plan_id = last'.req
        /\ { i \in DOMAIN subscriptions' :
               subscriptions'[i].team_id = team /\ subscriptions'[i].status = "active" }
             = {new}
        /\ \A i \in ActiveOf(team) : subscriptions'[i].status = "canceled"
        /\ \A i \in DOMAIN subscriptions :
              i \notin ActiveOf(team) => subscriptions'[i] = subscriptions[i]

C16_Singularity == [](C16_AtMostOneActive) /\ [][C16_StartStep]_vars

\* a team has started a second subscription: its first one is canceled and
\* the one just created is its only active one
C16_Witness ==
    /\ last.op = "start_subscription"
    /\ last.status_code = 200
    /\ \E i, j \in DOMAIN subscriptions :
          /\ i < j
          /\ j = Len(subscriptions)
          /\ subscriptions[i].team_id = last.team
          /\ subscriptions[j].team_id = last.team
          /\ subscriptions[i].status = "canceled"
          /\ subscriptions[i].cancel_at # <<>>
          /\ ActiveOf(last.team) = {j}


(***************************************************************************)
(* C17.  Two start_subscription calls of one team that interleave between  *)
(* the read of the current active subscription and the commit both         *)
(* complete and leave two subscriptions of the team active: a commit       *)
(* cancels the subscription its call has read and no other, so that a      *)
(* subscription started in between stays active next to the new one.       *)
(***************************************************************************)
C17_CommitStep ==
    (last'.op = "start_subscription" /\ last'.status_code = 200) =>
        LET r == CHOOSE x \in inflight : x \notin inflight'
            team == last'.team
            activeAfter == { i \in DOMAIN subscriptions' :
                               /\ subscriptions'[i].team_id = team
                               /\ subscriptions'[i].status = "active" }
        IN  /\ r.team = team
            /\ activeAfter = (ActiveOf(team) \ {r.current}) \cup {Len(subscriptions')}
            /\ (ActiveOf(team) \ {r.current} # {}) => Cardinality(activeAfter) >= 2

C17_StaleCommit == [][C17_CommitStep]_vars

\* two calls of a team have read before either committed, both have
\* completed, and the two subscriptions they created are both active
C17_Witness ==
    /\ inflight = {}
    /\ last.op = "start_subscription"
    /\ last.status_code = 200
    /\ Len(subscriptions) = 2
    /\ \A i \in {1, 2} :
          /\ subscriptions[i].team_id = last.team
          /\ subscriptions[i].status = "active"


(***************************************************************************)
(* C18.  Two concurrent admission requests of one kind and one team can    *)
(* both read a count below max_concurrent and both insert: the insert of a *)
(* request that has passed its checks is made whatever the count has       *)
(* become, and when the count has reached max_concurrent in between, it    *)
(* leaves more than max_concurrent new or running jobs in the window.      *)
(***************************************************************************)
C18_InsertStep ==
    (inflight' # inflight /\ inflight' \subseteq inflight) =>
        LET r == CHOOSE x \in inflight : x \notin inflight'
            table == IF r.op = "create_crawl_request" THEN crawl_requests ELSE search_requests
            tableAfter == IF r.op = "create_crawl_request" THEN crawl_requests'
                          ELSE search_requests'
            ceiling == ThePlan(r.team).max_concurrent_crawl
            countedAfter == { i \in DOMAIN tableAfter :
                                /\ tableAfter[i].team_id = r.team
                                /\ tableAfter[i].status \in {"new", "running"}
                                /\ now' - tableAfter[i].created_at <= 2 }
        IN  /\ last'.op = r.op
            /\ last'.status_code = 201
            /\ Len(tableAfter) = Len(table) + 1
            /\ tableAfter[Len(tableAfter)].team_id = r.team
            /\ tableAfter[Len(tableAfter)].status = "new"
            /\ (ceiling # -1 /\ Cardinality(Counted(r.team, table)) >= ceiling)
                  => Cardinality(countedAfter) > ceiling

C18_InsertUnchecked == [][C18_InsertStep]_vars

\* two crawl requests of t2 have both read no job, both have inserted, and
\* t2, whose plan allows one concurrent job, has two new jobs in the window
C18_Witness ==
    /\ inflight = {}
    /\ last.op = "create_crawl_request"
    /\ last.status_code = 201
    /\ last.team = "t2"
    /\ ThePlan("t2").max_concurrent_crawl = 1
    /\ Cardinality(Counted("t2", crawl_requests)) = 2


(***************************************************************************)
(* C19.  A team whose plan has max_concurrent 1 and that has one running   *)
(* crawl job created within the last 2 hours has a further crawl request   *)
(* rejected with the concurrency message; once each of its crawl jobs is   *)
(* finished, canceling, canceled or failed, its next crawl request that    *)
(* satisfies the other checks is admitted.                                 *)
(***************************************************************************)
C19_Released == {"finished", "canceling", "canceled", "failed"}

C19_CrawlStep ==
    (/\ last'.op = "create_crawl_request"
     /\ is_enterprise_mode_active
     /\ Subscribed(last'.team)
     /\ ThePlan(last'.team).max_concurrent_crawl = 1)
    => LET team == last'.team
           mine == { i \in DOMAIN crawl_requests : crawl_requests[i].team_id = team }
           sub == TheSubscription(team)
           payload == last'.req
       IN  /\ (\E i \in mine : /\ crawl_requests[i].status = "running"
                               /\ now - crawl_requests[i].created_at <= 2)
                 => /\ last'.status_code = 403
                    /\ last'.detail = ConcurrencyMessage(1)
                    /\ crawl_requests' = crawl_requests
           /\ (/\ mine # {}
               /\ \A i \in mine : crawl_requests[i].status \in C19_Released
               /\ payload.page_limit <= sub.remain_page_credit
               /\ payload.page_limit <= sub.remain_daily_page_credit
               /\ payload.max_depth <= ThePlan(team).crawl_max_depth
               /\ payload.proxy_server = None)
                 => /\ last'.status_code = 201
                    /\ Len(crawl_requests') = Len(crawl_requests) + 1
                    /\ last'.item.status = "new"

C19_SlotFreed == [][C19_CrawlStep]_vars

\* ceiling 1: the team's earlier crawl job, created within the last 2 hours,
\* has finished, and its next crawl request has been admitted
C19_Witness ==
    /\ last.op = "create_crawl_request"
    /\ last.status_code = 201
    /\ ThePlan(last.team).max_concurrent_crawl = 1
    /\ Len(crawl_requests) = 2
    /\ crawl_requests[1].team_id = last.team
    /\ crawl_requests[1].status = "finished"
    /\ now - crawl_requests[1].created_at <= 2
    /\ crawl_requests[2].team_id = last.team
    /\ crawl_requests[2].status = "new"


(***************************************************************************)
(* C20.  For every kind of job (single crawl, batch crawl, search,         *)
(* sitemap) the rejection of the plan-credit check carries exactly "You    *)
(* just have {remain} page credits left in your plan" and the rejection of *)
(* the daily check exactly "You just have {remain_daily} daily pages left  *)
(* in your plan"; the depth, concurrency, proxy-denied and no-subscription *)
(* rejections carry exactly "Your plan does not support more than          *)
(* {max_depth} depth", "Your plan does not support more than               *)
(* {max_concurrent} concurrent tasks", "With the current plan you cannot   *)
(* use this proxy server" and "You have no active subscription".  Each     *)
(* rejection is told by the check that fails first on the state the        *)
(* request is handled in.                                                  *)
(* C20_Original is the claim as stated, with the one wording for the four  *)
(* kinds; C20_Messages has the wording "page credits" and "daily pages"    *)
(* for single and batch crawls and "credits" and "daily credits" for       *)
(* searches and sitemaps.                                                  *)
(***************************************************************************)
C20_StatedWording == [op \in AdmissionOps |-> <<" page credits", " daily pages">>]

C20_WordingByKind ==
    [op \in AdmissionOps |->
        IF op \in {"create_crawl_request", "batch_crawl_requests"}
        THEN <<" page credits", " daily pages">>
        ELSE <<" credits", " daily credits">>]

C20_Step(wording) ==
    (last'.op \in AdmissionOps /\ is_enterprise_mode_active) =>
        LET op == last'.op
            team == last'.team
            payload == last'.req
            sub == TheSubscription(team)
            plan == ThePlan(team)
            cost == CostOf(op, payload)
            overPlan == sub.remain_page_credit # -1 /\ cost > sub.remain_page_credit
            overDaily == /\ sub.remain_daily_page_credit # -1
                         /\ cost > sub.remain_daily_page_credit
            overDepth == /\ op = "create_crawl_request"
                         /\ plan.crawl_max_depth # -1
                         /\ payload.max_depth > plan.crawl_max_depth
            cats == CategoriesOf(team, SlugOf(op, payload))
        IN  /\ ActiveOf(team) = {} =>
                  /\ last'.status_code = 403
                  /\ last'.detail = "You have no active subscription"
            /\ (Subscribed(team) /\ CeilingReached(team, op)) =>
                  /\ last'.status_code = 403
                  /\ last'.detail = "Your plan does not support more than "
                                    \o ToString(plan.max_concurrent_crawl)
                                    \o " concurrent tasks"
            /\ (Subscribed(team) /\ ~CeilingReached(team, op) /\ overPlan) =>
                  /\ last'.status_code = 403
                  /\ last'.detail = "You just have " \o ToString(sub.remain_page_credit)
                                    \o wording[op][1] \o " left in your plan"
            /\ (Subscribed(team) /\ ~CeilingReached(team, op) /\ ~overPlan /\ overDaily) =>
                  /\ last'.status_code = 403
                  /\ last'.detail = "You just have "
                                    \o ToString(sub.remain_daily_page_credit)
                                    \o wording[op][2] \o " left in your plan"
            /\ (/\ Subscribed(team) /\ ~CeilingReached(team, op)
                /\ ~overPlan /\ ~overDaily /\ overDepth) =>
                  /\ last'.status_code = 403
                  /\ last'.detail = "Your plan does not support more than "
                                    \o ToString(plan.crawl_max_depth) \o " depth"
            /\ (/\ Subscribed(team) /\ ~CeilingReached(team, op)
                /\ ~overPlan /\ ~overDaily /\ ~overDepth
                /\ op \in ProxyOps /\ cats = {"premium"} /\ plan.is_default) =>
                  /\ last'.status_code = 403
                  /\ last'.detail = "With the current plan you cannot use this proxy server"

C20_Original == [][C20_Step(C20_StatedWording)]_vars

C20_Messages == [][C20_Step(C20_WordingByKind)]_vars

\* plan credit 5: the sitemap request of cost 10 has been rejected with the
\* wording of the sitemap handler
C20_Witness ==
    /\ is_enterprise_mode_active
    /\ last.op = "create_sitemap"
    /\ last.req.ignore_sitemap_xml
    /\ last.status_code = 403
    /\ last.detail = "You just have 5 credits left in your plan"
    /\ Subscribed(last.team)
    /\ TheSubscription(last.team).remain_page_credit = 5


(***************************************************************************)
(* C21.  Under any sequence of start_subscription, cancel_subscription and *)
(* renew_subscription calls no subscription row is deleted: the rows of a  *)
(* team only grow in number and keep their identity, team and plan; the    *)
(* status of every row is active or canceled in every state; and a row     *)
(* that is canceled, by a cancellation or by the start that superseded it, *)
(* stays stored with the status canceled.                                  *)
(***************************************************************************)
C21_Statuses ==
    \A i \in DOMAIN subscriptions : subscriptions[i].status \in {"active", "canceled"}

C21_LedgerStep ==
    /\ Len(subscriptions') >= Len(subscriptions)
    /\ \A i \in DOMAIN subscriptions :
          /\ subscriptions'[i].uuid = subscriptions[i].uuid
          /\ subscriptions'[i].team_id = subscriptions[i].team_id
          /\ subscriptions'[i].plan_id = subscriptions[i].plan_id
          /\ subscriptions'[i].created_at = subscriptions[i].created_at
          /\ subscriptions[i].status = "canceled" => subscriptions'[i].status = "canceled"
    /\ (last'.op = "start_subscription" /\ last'.status_code = 200) =>
          \A i \in ActiveOf(last'.team) : subscriptions'[i].status = "canceled"

C21_HistoryRetained == [](C21_Statuses) /\ [][C21_LedgerStep]_vars

\* a team has canceled its first subscription, started a second and
\* superseded it by a third: the three rows are stored, two of them canceled
C21_Witness ==
    /\ Len(subscriptions) = 3
    /\ last.op = "start_subscription"
    /\ last.status_code = 200
    /\ \A i \in 1..3 : subscriptions[i].team_id = last.team
    /\ subscriptions[1].status = "canceled"
    /\ subscriptions[2].status = "canceled"
    /\ subscriptions[3].status = "active"


(***************************************************************************)
(* C22.  In metered mode a single crawl request that violates several      *)
(* limits at once is rejected by the first failing check in the order: no  *)
(* active subscription, concurrency ceiling, plan credit, daily credit,    *)
(* depth, proxy access.  In particular a request over the concurrency      *)
(* ceiling and over the credit is rejected for the concurrency, and one    *)
(* over the plan and the daily credit is rejected citing the plan credit.  *)
(***************************************************************************)
C22_Payloads ==
    { SpiderOptions(d, l, s) : d \in {3, 4, 11}, l \in {2, 6, 101},
                               s \in {None, "prem", "ghost"} }

\* the checks a request fails on the state, as the numbers of their places
C22_Failing(team, payload, proxy) ==
    IF ActiveOf(team) = {} THEN {1}
    ELSE LET sub == TheSubscription(team)
             plan == ThePlan(team)
         IN  (IF CeilingReached(team, "create_crawl_request") THEN {2} ELSE {})
             \cup (IF sub.remain_page_credit # -1
                      /\ payload.page_limit > sub.remain_page_credit THEN {3} ELSE {})
             \cup (IF sub.remain_daily_page_credit # -1
                      /\ payload.page_limit > sub.remain_daily_page_credit THEN {4} ELSE {})
             \cup (IF plan.crawl_max_depth # -1
                      /\ payload.max_depth > plan.crawl_max_depth THEN {5} ELSE {})
             \cup (IF payload.proxy_server # None
                      /\ (proxy = {}
                          \/ \E p \in proxy : p.category = "premium" /\ plan.is_default)
                   THEN {6} ELSE {})

\* the rejection of the check at a place
C22_Rejection(place, team, proxy) ==
    CASE place = 1 -> HTTPException(403, NoSubscriptionMessage)
      [] place = 2 -> HTTPException(403, ConcurrencyMessage(ThePlan(team).max_concurrent_crawl))
      [] place = 3 -> HTTPException(403, "You just have "
                          \o ToString(TheSubscription(team).remain_page_credit)
                          \o " page credits left in your plan")
      [] place = 4 -> HTTPException(403, "You just have "
                          \o ToString(TheSubscription(team).remain_daily_page_credit)
                          \o " daily pages left in your plan")
      [] place = 5 -> HTTPException(403, DepthMessage(ThePlan(team).crawl_max_depth))
      [] place = 6 -> IF proxy = {} THEN HTTPException(400, ProxyNotFoundMessage)
                      ELSE HTTPException(403, ProxyDeniedMessage)

C22_FirstFailure ==
    is_enterprise_mode_active =>
        \A team \in Teams, payload \in C22_Payloads :
            \A proxy \in ProxyLookup(team, payload.proxy_server) :
                LET failing == C22_Failing(team, payload, proxy)
                    exc == create_crawl_request_checks(team, payload, proxy)
                IN  IF failing = {} THEN ~exc.raised
                    ELSE LET first == CHOOSE p \in failing : \A q \in failing : p <= q
                         IN  exc = C22_Rejection(first, team, proxy)

\* a crawl over the concurrency ceiling, over the plan credit and over the
\* daily credit has been rejected for the concurrency
C22_Witness ==
    /\ is_enterprise_mode_active
    /\ last.op = "create_crawl_request"
    /\ last.status_code = 403
    /\ Subscribed(last.team)
    /\ last.detail = ConcurrencyMessage(ThePlan(last.team).max_concurrent_crawl)
    /\ Cardinality(Counted(last.team, crawl_requests)) >= ThePlan(last.team).max_concurrent_crawl
    /\ last.req.page_limit > TheSubscription(last.team).remain_page_credit
    /\ last.req.page_limit > TheSubscription(last.team).remain_daily_page_credit
    /\ TheSubscription(last.team).remain_daily_page_credit # -1


(***************************************************************************)
(* C23.  The core changes the status of an existing job only by the        *)
(* cancellation running -> canceling of the job named: across every        *)
(* admission, listing, retrieval, status and subscription operation each   *)
(* existing job keeps its status, options and owner, no job is removed,    *)
(* and across a cancellation every job other than a running one named by   *)
(* it does so too; a job that is new, canceling, finished, canceled or     *)
(* failed keeps its status across every operation.  The steps of the       *)
(* execution backend are not operations of the core.                       *)
(***************************************************************************)
C23_Kept(op, before, after, cancels) ==
    /\ Len(after) >= Len(before)
    /\ \A i \in DOMAIN before :
          /\ after[i].uuid = before[i].uuid
          /\ after[i].team_id = before[i].team_id
          /\ after[i].created_at = before[i].created_at
          /\ after[i] # before[i] =>
                /\ op = cancels
                /\ i = last'.req
                /\ before[i].status = "running"
                /\ after[i] = [before[i] EXCEPT !.status = "canceling"]
          /\ before[i].status \in {"new", "canceling", "finished", "canceled", "failed"}
                => after[i].status = before[i].status

C23_CoreStep ==
    last'.op # "execution_backend" =>
        /\ C23_Kept(last'.op, crawl_requests, crawl_requests', "delete_crawl_request")
        /\ C23_Kept(last'.op, search_requests, search_requests', "delete_search")
        /\ C23_Kept(last'.op, sitemap_requests, sitemap_requests', "delete_sitemap")

C23_OnlyCancellation == [][C23_CoreStep]_vars

\* a team has canceled its subscription while one of its jobs is running and
\* another is finished: both are as they were
C23_Witness ==
    /\ last.op = "cancel_subscription"
    /\ ActiveOf(last.team) = {}
    /\ \E i \in DOMAIN crawl_requests :
          /\ crawl_requests[i].team_id = last.team
          /\ crawl_requests[i].status = "running"
    /\ \E i \in DOMAIN sitemap_requests :
          /\ sitemap_requests[i].team_id = last.team
          /\ sitemap_requests[i].status = "finished"


(***************************************************************************)
(* C29.  No operation issued by a team changes or reveals a job owned by   *)
(* another team: a cancellation, retrieval or status request naming a      *)
(* crawl, search or sitemap job of another team is answered 404 not found  *)
(* and returns nothing of the job, which keeps its status even when it is  *)
(* running; a retrieval or a listing returns jobs of the requesting team   *)
(* only; and every operation of a team leaves the jobs of the other teams  *)
(* as they are.                                                            *)
(***************************************************************************)
C29_NamingOps ==
    [delete_crawl_request |-> <<1, "Crawl request not found">>,
     retrieve_crawl_request |-> <<1, "Crawl request not found">>,
     crawl_status |-> <<1, "Crawl request not found">>,
     delete_search |-> <<2, "Search request not found">>,
     retrieve_search |-> <<2, "Search request not found">>,
     search_status |-> <<2, "Search request not found">>,
     delete_sitemap |-> <<3, "Sitemap request not found">>,
     retrieve_sitemap |-> <<3, "Sitemap request not found">>,
     sitemap_status |-> <<3, "Sitemap request not found">>]

C29_OthersKept(team, before, after) ==
    /\ Len(after) >= Len(before)
    /\ \A i \in DOMAIN before : before[i].team_id # team => after[i] = before[i]

C29_TeamStep ==
    last'.team \in Teams =>
        LET team == last'.team
            op == last'.op
        IN  /\ C29_OthersKept(team, crawl_requests, crawl_requests')
            /\ C29_OthersKept(team, search_requests, search_requests')
            /\ C29_OthersKept(team, sitemap_requests, sitemap_requests')
            /\ op \in DOMAIN C29_NamingOps =>
                  LET table == <<crawl_requests, search_requests,
                                 sitemap_requests>>[C29_NamingOps[op][1]]
                      uuid == last'.req
                  IN  (uuid \in DOMAIN table /\ table[uuid].team_id # team) =>
                          /\ last'.status_code = 404
                          /\ last'.detail = C29_NamingOps[op][2]
                          /\ last'.item = None
                          /\ jobs' = jobs
            /\ (op \in {"retrieve_crawl_request", "retrieve_search", "retrieve_sitemap"}
                /\ last'.status_code = 200) => last'.item.team_id = team
            /\ op \in {"list_crawl_requests", "list_search", "list_sitemaps"} =>
                  \A k \in DOMAIN last'.item : last'.item[k].team_id = team

C29_Isolation == [][C29_TeamStep]_vars

\* the cancellation by t1 of the running search of t2 has been answered not
\* found, and the search is still running
C29_Witness ==
    /\ last.op = "delete_search"
    /\ last.team = "t1"
    /\ last.status_code = 404
    /\ last.req \in DOMAIN search_requests
    /\ search_requests[last.req].team_id = "t2"
    /\ search_requests[last.req].status = "running"


(***************************************************************************)
(* C24.  In metered mode, when a team has more than one subscription of    *)
(* status active, the one with the latest creation time is used: the       *)
(* credits, depth, concurrency ceiling and proxy categories resolved are   *)
(* those of that row and its plan, and start_subscription,                 *)
(* cancel_subscription and renew_subscription act on that row and leave    *)
(* the other active rows as they are.                                      *)
(***************************************************************************)
\* the active row of the team no other active row of the team is later than
C24_Latest(team) ==
    CHOOSE i \in ActiveOf(team) :
        \A j \in ActiveOf(team) : subscriptions[j].created_at <= subscriptions[i].created_at

C24_Resolved ==
    \A team \in Teams :
        (is_enterprise_mode_active /\ ActiveOf(team) # {}) =>
            LET sub == subscriptions[C24_Latest(team)]
                plan == plans[sub.plan_id]
                limits == _remaining_limits(team)
            IN  /\ ~limits.raised
                /\ limits.remain = sub.remain_page_credit
                /\ limits.remain_daily = sub.remain_daily_page_credit
                /\ limits.max_depth = plan.crawl_max_depth
                /\ limits.max_concurrent = plan.max_concurrent_crawl
                /\ limits.allowed_proxy_categories
                      = {"team", "general"} \cup (IF plan.is_default THEN {} ELSE {"premium"})

C24_LedgerStep ==
    LET team == last'.team
        op == last'.op
    IN  (/\ op \in {"start_subscription", "cancel_subscription", "renew_subscription"}
         /\ last'.status_code \in {200, 204}
         /\ ActiveOf(team) # {}) =>
            LET r == C24_Latest(team)
                canceled == [subscriptions EXCEPT ![r].status = "canceled",
                                                  ![r].cancel_at = <<now>>]
            IN  CASE op = "cancel_subscription" -> subscriptions' = canceled
                  [] op = "renew_subscription" ->
                        subscriptions' = [subscriptions EXCEPT ![r].cancel_at = <<>>]
                  [] op = "start_subscription" ->
                        /\ Len(subscriptions') = Len(subscriptions) + 1
                        /\ \A i \in DOMAIN subscriptions : subscriptions'[i] = canceled[i]

C24_LatestUsed == [](C24_Resolved) /\ [][C24_LedgerStep]_vars

\* a team has two active subscriptions, the later created one stored first
\* and on the plan of depth 3: its crawl of depth 11 has been refused citing
\* the 3, not the 10 of the plan of the other subscription
C24_Witness ==
    /\ last.op = "create_crawl_request"
    /\ last.status_code = 403
    /\ last.detail = "Your plan does not support more than 3 depth"
    /\ \E i, j \in ActiveOf(last.team) :
          /\ i < j
          /\ subscriptions[i].created_at > subscriptions[j].created_at
          /\ plans[subscriptions[i].plan_id].crawl_max_depth = 3
          /\ plans[subscriptions[j].plan_id].crawl_max_depth = 10


(***************************************************************************)
(* C25.  After cancel_subscription returns for a team, the team has no     *)
(* subscription of status active, and in metered mode its admission        *)
(* requests are rejected with 403 "You have no active subscription" until  *)
(* a start_subscription succeeds; this in every reachable state, those     *)
(* left by interleaved start_subscription calls included.                  *)
(***************************************************************************)
C25_CancelStep ==
    (last'.op = "cancel_subscription" /\ last'.status_code = 204) =>
        /\ \A i \in DOMAIN subscriptions' :
              subscriptions'[i].team_id = last'.team => subscriptions'[i].status # "active"

\* the crawl request a team sends right after its cancellation
C25_NoStep ==
    (/\ last'.op = "create_crawl_request"
     /\ is_enterprise_mode_active
     /\ last.op = "cancel_subscription"
     /\ last.team = last'.team)
    => /\ last'.status_code = 403
       /\ last'.detail = NoSubscriptionMessage

C25_NoneActiveAfterCancel == [][C25_CancelStep /\ C25_NoStep]_vars


(***************************************************************************)
(* C26.  Within one admission request the concurrency ceiling and the      *)
(* credit, depth and proxy limits applied all come from one and the same   *)
(* active subscription, also when a start_subscription or                  *)
(* cancel_subscription of the team commits while the request is in         *)
(* progress: the answer to a single crawl request is the answer the checks *)
(* give with every limit taken from one subscription of the team, or the   *)
(* rejection for no active subscription.                                   *)
(***************************************************************************)
\* the answer to a crawl request with every limit taken from the row i
C26_AnswerUnder(i, team, payload) ==
    LET sub == subscriptions[i]
        plan == plans[sub.plan_id]
        cats == CategoriesOf(team, payload.proxy_server)
    IN  IF /\ plan.max_concurrent_crawl # -1
           /\ Cardinality(Counted(team, crawl_requests)) >= plan.max_concurrent_crawl
        THEN <<403, ConcurrencyMessage(plan.max_concurrent_crawl)>>
        ELSE IF sub.remain_page_credit # -1 /\ payload.page_limit > sub.remain_page_credit
        THEN <<403, "You just have " \o ToString(sub.remain_page_credit)
                    \o " page credits left in your plan">>
        ELSE IF /\ sub.remain_daily_page_credit # -1
                /\ payload.page_limit > sub.remain_daily_page_credit
        THEN <<403, "You just have " \o ToString(sub.remain_daily_page_credit)
                    \o " daily pages left in your plan">>
        ELSE IF plan.crawl_max_depth # -1 /\ payload.max_depth > plan.crawl_max_depth
        THEN <<403, DepthMessage(plan.crawl_max_depth)>>
        ELSE IF payload.proxy_server # None /\ cats = {}
        THEN <<400, ProxyNotFoundMessage>>
        ELSE IF payload.proxy_server # None /\ cats = {"premium"} /\ plan.is_default
        THEN <<403, ProxyDeniedMessage>>
        ELSE <<201, "">>

C26_AnswerStep ==
    (/\ last'.op = "create_crawl_request"
     /\ inflight' # inflight
     /\ is_enterprise_mode_active) =>
        LET team == last'.team
            mine == { i \in DOMAIN subscriptions : subscriptions[i].team_id = team }
        IN  <<last'.status_code, last'.detail>>
                \in { C26_AnswerUnder(i, team, last'.req) : i \in mine }
                    \cup {<<403, NoSubscriptionMessage>>}

C26_OneSubscription == [][C26_AnswerStep]_vars


(***************************************************************************)
(* C27.  In metered mode a team whose active subscription has              *)
(* remain_page_credit = 0 or remain_daily_page_credit = 0 has every single *)
(* crawl, batch crawl, search and sitemap request rejected with            *)
(* InsufficientCredit, whatever page_limit, urls, result_limit and         *)
(* ignore_sitemap_xml the request carries.  Stated for the requests that   *)
(* reach the credit checks, those sent below the concurrency ceiling.      *)
(***************************************************************************)
C27_Spent(team) ==
    /\ Subscribed(team)
    /\ \/ TheSubscription(team).remain_page_credit = 0
       \/ TheSubscription(team).remain_daily_page_credit = 0

\* the rejection InsufficientCredit, citing one of the two counters
C27_InsufficientCredit ==
    /\ last'.status_code = 403
    /\ last'.detail \in
          PlanCreditMessages(TheSubscription(last'.team).remain_page_credit)
              \cup DailyCreditMessages(TheSubscription(last'.team).remain_daily_page_credit)

C27_SpentStep ==
    (/\ last'.op \in AdmissionOps
     /\ is_enterprise_mode_active
     /\ C27_Spent(last'.team)
     /\ ~CeilingReached(last'.team, last'.op)) => C27_InsufficientCredit

C27_SpentRejected == [][C27_SpentStep]_vars

\* the same for the requests of a cost of 1 at least
C27_CostlyStep ==
    (/\ last'.op \in AdmissionOps
     /\ is_enterprise_mode_active
     /\ C27_Spent(last'.team)
     /\ ~CeilingReached(last'.team, last'.op)
     /\ CostOf(last'.op, last'.req) >= 1) => C27_InsufficientCredit

C27_CostlyRejected == [][C27_CostlyStep]_vars

C27_Witness ==
    /\ last.op = "create_search" /\ last.req.result_limit = 20
    /\ last.status_code = 403 /\ last.detail \in DailyCreditMessages(0)
    /\ C27_Spent(last.team)


(***************************************************************************)
(* C28.  For every team and every slug, at most one proxy server with that *)
(* slug is visible to the team (its own or a global one) in every state    *)
(* reached through create_proxy, patch_proxy and delete_proxy while global *)
(* proxies exist, so that the proxy guard's decision is determined by the  *)
(* stored rows.                                                            *)
(***************************************************************************)
C28_OneVisible ==
    \A team \in Teams, slug \in ProxySlugs : Cardinality(VisibleProxies(team, slug)) <= 1



(***************************************************************************)
(* C30.  A start_subscription call that fails, in unmetered mode or for a  *)
(* plan that does not exist or is inactive, leaves every subscription      *)
(* unchanged: the team's active subscription stays active with its         *)
(* cancel_at unset and no subscription row is created.                     *)
(***************************************************************************)
C30_Fails(plan_uuid) ==
    \/ ~is_enterprise_mode_active
    \/ plan_uuid \notin DOMAIN plans
    \/ ~plans[plan_uuid].is_active

C30_FailedStep ==
    (last'.op = "start_subscription" /\ C30_Fails(last'.req)) =>
        /\ last'.status_code \in {403, 404}
        /\ Len(subscriptions') = Len(subscriptions)
        /\ \A i \in DOMAIN subscriptions : subscriptions'[i] = subscriptions[i]
        /\ \A i \in ActiveOf(last'.team) :
              subscriptions'[i].status = "active" /\ subscriptions'[i].cancel_at = <<>>

C30_FailedStartKeeps == [][C30_FailedStep]_vars

\* a start for the inactive plan was refused while the team was subscribed
C30_Witness ==
    /\ last.op = "start_subscription" /\ last.req = "retired"
    /\ last.status_code = 404
    /\ is_enterprise_mode_active
    /\ \E i \in ActiveOf(last.team) : subscriptions[i].cancel_at = <<>>


(***************************************************************************)
(* C31.  Once the status of a subscription is canceled it never becomes    *)
(* active again under any sequence of start_subscription,                  *)
(* cancel_subscription and renew_subscription calls: renew_subscription    *)
(* acts only on a subscription that is active, clearing its cancel_at, and *)
(* answers not found, changing nothing, when the team has no active        *)
(* subscription.                                                           *)
(***************************************************************************)
C31_Canceled == { i \in DOMAIN subscriptions : subscriptions[i].status = "canceled" }

C31_StaysCanceled ==
    \A i \in C31_Canceled :
        /\ i \in DOMAIN subscriptions'
        /\ subscriptions'[i].status = "canceled"
        /\ subscriptions'[i].cancel_at = subscriptions[i].cancel_at

C31_RenewStep ==
    (last'.op = "renew_subscription") =>
        IF ActiveOf(last'.team) = {}
        THEN /\ last'.status_code = 404 /\ last'.detail = NoSubscriptionMessage
             /\ subscriptions' = subscriptions
        ELSE /\ last'.status_code = 204
             /\ Len(subscriptions') = Len(subscriptions)
             /\ \A i \in DOMAIN subscriptions :
                   \/ subscriptions'[i] = subscriptions[i]
                   \/ /\ i \in ActiveOf(last'.team)
                      /\ subscriptions'[i] = [subscriptions[i] EXCEPT !.cancel_at = <<>>]

C31_NoRevival == [][C31_StaysCanceled /\ C31_RenewStep]_vars

\* a renewal was refused to a team whose only subscriptions are canceled ones
C31_Witness ==
    /\ last.op = "renew_subscription" /\ last.status_code = 404
    /\ ActiveOf(last.team) = {}
    /\ \E i \in C31_Canceled : subscriptions[i].team_id = last.team

====
